---- MODULE Spec2Model ----
(***************************************************************************)
(* Gap-buffer text store of md-edit (src/src/editor/text_buffer.rs) and   *)
(* the editing session with its undo history (src/src/editor/mod.rs).      *)
(* Bytes are integers 0..255; Rust's 0-based indices are kept, so the byte *)
(* storage[i] of the source is At(s, i) here.  A Rust panic (index out of  *)
(* range) ends the program: the state at the panic is kept and `panicked`  *)
(* is set.                                                                 *)
(***************************************************************************)
EXTENDS Integers, Sequences, FiniteSets, TLC

VARIABLES storage, gap_start, gap_end, line_starts, line_cache_dirty,
          panicked, last,
          undo_stack, redo_stack, cursor_position, dirty,
          theme, markdown, events, elements, current_element, list_stack,
          blockquote_stack, pc, tree, previous

vars == <<storage, gap_start, gap_end, line_starts, line_cache_dirty,
          panicked, last,
          undo_stack, redo_stack, cursor_position, dirty,
          theme, markdown, events, elements, current_element, list_stack,
          blockquote_stack, pc, tree, previous>>

---------------------------------------------------------------------------
(* Bounds of the model *)

\* longest initial text handed to from(), in bytes
MaxLen == 3
\* longest text handed to insert / replace_range, in bytes
MaxIns == 1
\* the max_size an EditHistory is constructed with
max_size == 2

---------------------------------------------------------------------------
(* Bytes and strings *)

NL == 10
\* '\r'
CR == 13

\* the characters texts are built from: 'a' and '\n'
Chars == { <<97>>, <<NL>> }

\* a text of one two-byte character, U+00E9
Utf8Texts == { <<195, 169>> }

RECURSIVE StrsUpTo(_)
StrsUpTo(n) ==
    IF n <= 0 THEN { <<>> }
    ELSE {<<>>} \cup
         UNION { { c \o s : s \in StrsUpTo(n - Len(c)) } :
                 c \in { d \in Chars : Len(d) <= n } }

Min(a, b) == IF a <= b THEN a ELSE b
Max(a, b) == IF a >= b THEN a ELSE b

\* s[from..to) with 0-based, end-exclusive indices, as a Rust slice
Slice(s, from, to) == SubSeq(s, from + 1, to)

At(s, i) == s[i + 1]
Put(s, i, v) == [s EXCEPT ![i + 1] = v]
InBounds(s, i) == i >= 0 /\ i < Len(s)

\* std::str::from_utf8: is the byte sequence well-formed UTF-8
IsCont(b) == b >= 128 /\ b <= 191

RECURSIVE from_utf8_ok(_)
from_utf8_ok(s) ==
    IF s = <<>> THEN TRUE
    ELSE LET b0 == s[1] IN
         IF b0 < 128 THEN from_utf8_ok(Tail(s))
         ELSE IF b0 >= 194 /\ b0 <= 223 THEN
              /\ Len(s) >= 2 /\ IsCont(s[2])
              /\ from_utf8_ok(SubSeq(s, 3, Len(s)))
         ELSE IF b0 >= 224 /\ b0 <= 239 THEN
              /\ Len(s) >= 3 /\ IsCont(s[2]) /\ IsCont(s[3])
              /\ (b0 = 224 => s[2] >= 160)
              /\ (b0 = 237 => s[2] <= 159)
              /\ from_utf8_ok(SubSeq(s, 4, Len(s)))
         ELSE IF b0 >= 240 /\ b0 <= 244 THEN
              /\ Len(s) >= 4 /\ IsCont(s[2]) /\ IsCont(s[3]) /\ IsCont(s[4])
              /\ (b0 = 240 => s[2] >= 144)
              /\ (b0 = 244 => s[2] <= 143)
              /\ from_utf8_ok(SubSeq(s, 5, Len(s)))
         ELSE FALSE

\* std::str::from_utf8(bytes).unwrap_or("")
utf8_or_empty(s) == IF from_utf8_ok(s) THEN s ELSE <<>>

---------------------------------------------------------------------------
(* The TextBuffer as a value: the operations below map buffers to buffers *)

Buf == [storage |-> storage, gap_start |-> gap_start, gap_end |-> gap_end,
        line_starts |-> line_starts, line_cache_dirty |-> line_cache_dirty,
        panicked |-> panicked]

\* TextBuffer::len
len(b) == Len(b.storage) - (b.gap_end - b.gap_start)

\* the three zones of the storage
zone1(b) == Slice(b.storage, 0, b.gap_start)
zone3(b) == Slice(b.storage, b.gap_end, Len(b.storage))
raw_text(b) == zone1(b) \o zone3(b)

\* TextBuffer::as_str
as_str(b) == utf8_or_empty(zone1(b)) \o utf8_or_empty(zone3(b))

\* the offsets following each '\n' of text, in increasing order
RECURSIVE newline_starts(_, _)
newline_starts(text, i) ==
    IF i >= Len(text) THEN <<>>
    ELSE IF At(text, i) = NL /\ i + 1 <= Len(text)
         THEN <<i + 1>> \o newline_starts(text, i + 1)
         ELSE newline_starts(text, i + 1)

\* TextBuffer::rebuild_line_cache
rebuild_line_cache(b) ==
    [b EXCEPT !.line_starts = <<0>> \o newline_starts(as_str(b), 0),
              !.line_cache_dirty = FALSE]

\* TextBuffer::rebuild_line_cache_if_needed
rebuild_line_cache_if_needed(b) ==
    IF ~b.line_cache_dirty THEN b ELSE rebuild_line_cache(b)

\* TextBuffer::new
new ==
    [storage |-> <<>>, gap_start |-> 0, gap_end |-> 0,
     line_starts |-> <<0>>, line_cache_dirty |-> FALSE, panicked |-> FALSE]

\* from() with the whole storage taken for the gap
from_all_gap(text) ==
    rebuild_line_cache(
        [storage |-> text, gap_start |-> 0, gap_end |-> Len(text),
         line_starts |-> <<0>>, line_cache_dirty |-> TRUE,
         panicked |-> FALSE])

\* TextBuffer::from
from(text) ==
    rebuild_line_cache(
        [storage |-> text, gap_start |-> Len(text), gap_end |-> Len(text),
         line_starts |-> <<0>>, line_cache_dirty |-> TRUE,
         panicked |-> FALSE])

\* `for i in 0..n { storage[dst + i] = storage[src + i]; }`, one byte at a
\* time in ascending order; an index outside the storage panics
RECURSIVE copy_ascending(_, _, _, _, _)
copy_ascending(s, dst, src, i, n) ==
    IF i >= n THEN [storage |-> s, panicked |-> FALSE]
    ELSE IF ~InBounds(s, src + i) \/ ~InBounds(s, dst + i)
         THEN [storage |-> s, panicked |-> TRUE]
         ELSE copy_ascending(Put(s, dst + i, At(s, src + i)),
                             dst, src, i + 1, n)

\* `for i in (0..n).rev() { storage[dst + i] = storage[src + i]; }`:
\* called with i = n, copies bytes n-1, n-2, .. 0
RECURSIVE copy_descending(_, _, _, _)
copy_descending(s, dst, src, i) ==
    IF i <= 0 THEN [storage |-> s, panicked |-> FALSE]
    ELSE IF ~InBounds(s, src + i - 1) \/ ~InBounds(s, dst + i - 1)
         THEN [storage |-> s, panicked |-> TRUE]
         ELSE copy_descending(Put(s, dst + i - 1, At(s, src + i - 1)),
                              dst, src, i - 1)

\* move_gap whose move to the right advances gap_start only
move_gap_end_not_advanced(b, pos0) ==
    IF pos0 = b.gap_start THEN b
    ELSE LET pos == Min(pos0, len(b)) IN
         IF pos < b.gap_start
         THEN LET move_len == b.gap_start - pos
                  r == copy_ascending(b.storage, b.gap_end - move_len,
                                      pos, 0, move_len)
              IN IF r.panicked
                 THEN [b EXCEPT !.storage = r.storage, !.panicked = TRUE]
                 ELSE [b EXCEPT !.storage = r.storage,
                                !.gap_start = @ - move_len,
                                !.gap_end = @ - move_len]
         ELSE LET move_len == pos - b.gap_start
                  r == copy_ascending(b.storage, b.gap_start,
                                      b.gap_end, 0, move_len)
              IN IF r.panicked
                 THEN [b EXCEPT !.storage = r.storage, !.panicked = TRUE]
                 ELSE [b EXCEPT !.storage = r.storage,
                                !.gap_start = @ + move_len]

\* move_gap without `let pos = pos.min(len)`
move_gap_unclamped(b, pos0) ==
    IF pos0 = b.gap_start THEN b
    ELSE LET pos == pos0 IN
         IF pos < b.gap_start
         THEN LET move_len == b.gap_start - pos
                  r == copy_ascending(b.storage, b.gap_end - move_len,
                                      pos, 0, move_len)
              IN IF r.panicked
                 THEN [b EXCEPT !.storage = r.storage, !.panicked = TRUE]
                 ELSE [b EXCEPT !.storage = r.storage,
                                !.gap_start = @ - move_len,
                                !.gap_end = @ - move_len]
         ELSE LET move_len == pos - b.gap_start
                  r == copy_ascending(b.storage, b.gap_start,
                                      b.gap_end, 0, move_len)
              IN IF r.panicked
                 THEN [b EXCEPT !.storage = r.storage, !.panicked = TRUE]
                 ELSE [b EXCEPT !.storage = r.storage,
                                !.gap_start = @ + move_len,
                                !.gap_end = @ + move_len]

\* TextBuffer::move_gap
move_gap(b, pos0) ==
    IF pos0 = b.gap_start THEN b
    ELSE LET pos == Min(pos0, len(b)) IN
         IF pos < b.gap_start
         THEN LET move_len == b.gap_start - pos
                  r == copy_ascending(b.storage, b.gap_end - move_len,
                                      pos, 0, move_len)
              IN IF r.panicked
                 THEN [b EXCEPT !.storage = r.storage, !.panicked = TRUE]
                 ELSE [b EXCEPT !.storage = r.storage,
                                !.gap_start = @ - move_len,
                                !.gap_end = @ - move_len]
         ELSE LET move_len == pos - b.gap_start
                  r == copy_ascending(b.storage, b.gap_start,
                                      b.gap_end, 0, move_len)
              IN IF r.panicked
                 THEN [b EXCEPT !.storage = r.storage, !.panicked = TRUE]
                 ELSE [b EXCEPT !.storage = r.storage,
                                !.gap_start = @ + move_len,
                                !.gap_end = @ + move_len]

\* Vec::resize(new_len, 0)
resize(s, new_len) ==
    IF new_len <= Len(s) THEN SubSeq(s, 1, new_len)
    ELSE s \o [i \in 1..(new_len - Len(s)) |-> 0]

\* TextBuffer::grow_gap
grow_gap(b, additional) ==
    LET new_gap_end == b.gap_end + additional
        resized == resize(b.storage, new_gap_end)
        src_start == b.gap_end
        dst_start == b.gap_end + additional
        n == Len(resized) - src_start
        r == copy_descending(resized, dst_start, src_start, n)
    IN IF r.panicked
       THEN [b EXCEPT !.storage = r.storage, !.panicked = TRUE]
       ELSE [b EXCEPT !.storage = r.storage, !.gap_end = new_gap_end]

\* `for (i, &byte) in text_bytes.iter().enumerate()
\*      { storage[gap_start + i] = byte; }`
RECURSIVE write_bytes(_, _, _, _)
write_bytes(s, at, text, i) ==
    IF i >= Len(text) THEN [storage |-> s, panicked |-> FALSE]
    ELSE IF ~InBounds(s, at + i) THEN [storage |-> s, panicked |-> TRUE]
         ELSE write_bytes(Put(s, at + i, At(text, i)), at, text, i + 1)

\* insert that leaves the line cache flag as it was
insert_cache_left_clean(b, pos, text) ==
    LET b1 == move_gap(b, pos) IN
    IF b1.panicked THEN b1
    ELSE LET text_len == Len(text)
             gap_size == b1.gap_end - b1.gap_start
             b2 == IF text_len > gap_size
                   THEN grow_gap(b1, Max(text_len - gap_size,
                                         Len(b1.storage) \div 2))
                   ELSE b1
         IN IF b2.panicked THEN b2
            ELSE LET w == write_bytes(b2.storage, b2.gap_start, text, 0)
                 IN IF w.panicked
                    THEN [b2 EXCEPT !.storage = w.storage,
                                    !.panicked = TRUE]
                    ELSE [b2 EXCEPT !.storage = w.storage,
                                    !.gap_start = @ + text_len]

insert_rebuilds_eagerly(b, pos, text) ==
    LET r == insert_cache_left_clean(b, pos, text) IN
    IF r.panicked THEN r ELSE rebuild_line_cache(r)

\* TextBuffer::insert
insert(b, pos, text) ==
    LET b1 == move_gap(b, pos) IN
    IF b1.panicked THEN b1
    ELSE LET text_len == Len(text)
             gap_size == b1.gap_end - b1.gap_start
             b2 == IF text_len > gap_size
                   THEN grow_gap(b1, Max(text_len - gap_size,
                                         Len(b1.storage) \div 2))
                   ELSE b1
         IN IF b2.panicked THEN b2
            ELSE LET w == write_bytes(b2.storage, b2.gap_start, text, 0)
                 IN IF w.panicked
                    THEN [b2 EXCEPT !.storage = w.storage,
                                    !.panicked = TRUE]
                    ELSE [b2 EXCEPT !.storage = w.storage,
                                    !.gap_start = @ + text_len,
                                    !.line_cache_dirty = TRUE]

\* delete_range that returns early only for start > end
delete_range_strict_guard(b, range_start, range_end) ==
    IF range_start > range_end THEN b
    ELSE LET n == len(b)
             start == Min(range_start, n)
             end == Min(range_end, n)
             b1 == move_gap(b, end)
         IN IF b1.panicked THEN b1
            ELSE [b1 EXCEPT !.gap_start = @ - (end - start),
                            !.line_cache_dirty = TRUE]

\* TextBuffer::delete_range, for the range range_start..range_end
delete_range(b, range_start, range_end) ==
    IF range_start >= range_end THEN b
    ELSE LET n == len(b)
             start == Min(range_start, n)
             end == Min(range_end, n)
             b1 == move_gap(b, end)
         IN IF b1.panicked THEN b1
            ELSE [b1 EXCEPT !.gap_start = @ - (end - start),
                            !.line_cache_dirty = TRUE]

\* TextBuffer::replace_range
replace_range(b, range_start, range_end, text) ==
    LET d == delete_range(b, range_start, range_end) IN
    IF d.panicked THEN d ELSE insert(d, range_start, text)

\* usize::saturating_sub
saturating_sub(a, b) == IF a >= b THEN a - b ELSE 0

\* slice::binary_search on a strictly increasing sequence: Ok(index) of the
\* element equal to x, else Err(index where x would be inserted); indices
\* are 0-based
binary_search(seq, x) ==
    IF \E i \in 1..Len(seq) : seq[i] = x
    THEN [ok |-> TRUE, index |-> (CHOOSE i \in 1..Len(seq) : seq[i] = x) - 1]
    ELSE [ok |-> FALSE,
          index |-> Cardinality({ i \in 1..Len(seq) : seq[i] < x })]

\* The line queries take &mut self: each returns the store after the lazy
\* rebuild (buf) and the value the call returns (result)

\* line_count that reads the cache without rebuilding it
line_count_stale(b) ==
    [buf |-> b, result |-> Len(b.line_starts)]

\* TextBuffer::line_count (and line_count_mut)
line_count(b) ==
    LET b1 == rebuild_line_cache_if_needed(b) IN
    [buf |-> b1, result |-> Len(b1.line_starts)]

\* line_col_from_byte_index that steps one line back on an exact hit too
line_col_from_byte_index_line_before(b, byte_index) ==
    LET b1 == rebuild_line_cache_if_needed(b)
        found == binary_search(b1.line_starts, byte_index)
        line == saturating_sub(found.index, 1)
        line_start == At(b1.line_starts, line)
        col == saturating_sub(byte_index, line_start)
    IN [buf |-> b1, result |-> <<line, col>>]

line_col_from_byte_index_col_absolute(b, byte_index) ==
    LET b1 == rebuild_line_cache_if_needed(b)
        found == binary_search(b1.line_starts, byte_index)
        line == IF found.ok THEN found.index
                ELSE saturating_sub(found.index, 1)
    IN [buf |-> b1, result |-> <<line, byte_index>>]

\* TextBuffer::line_col_from_byte_index (and line_col_from_byte_index_mut)
line_col_from_byte_index(b, byte_index) ==
    LET b1 == rebuild_line_cache_if_needed(b)
        found == binary_search(b1.line_starts, byte_index)
        line == IF found.ok THEN found.index
                ELSE saturating_sub(found.index, 1)
        line_start == At(b1.line_starts, line)
        col == saturating_sub(byte_index, line_start)
    IN [buf |-> b1, result |-> <<line, col>>]

\* byte_index_from_line_col that adds the column without clamping it
byte_index_from_line_col_unclamped(b, line, col) ==
    LET b1 == rebuild_line_cache_if_needed(b) IN
    IF line >= Len(b1.line_starts)
    THEN [buf |-> b1, result |-> len(b1)]
    ELSE [buf |-> b1, result |-> At(b1.line_starts, line) + col]

\* TextBuffer::byte_index_from_line_col
byte_index_from_line_col(b, line, col) ==
    LET b1 == rebuild_line_cache_if_needed(b) IN
    IF line >= Len(b1.line_starts)
    THEN [buf |-> b1, result |-> len(b1)]
    ELSE LET line_start == At(b1.line_starts, line)
             line_end == IF line + 1 < Len(b1.line_starts)
                         THEN At(b1.line_starts, line + 1)
                         ELSE len(b1)
             line_len == line_end - line_start
         IN [buf |-> b1, result |-> line_start + Min(col, line_len)]

\* 0 <= lo <= hi <= Len(s): the slice s[lo..hi] does not panic
InRange(s, lo, hi) == 0 <= lo /\ lo <= hi /\ hi <= Len(s)

\* TextBuffer::substring that reads storage[start..end] whatever the gap
substring_ignores_gap(b, start, end) ==
    IF ~InRange(b.storage, start, end)
    THEN [text |-> <<>>, panicked |-> TRUE]
    ELSE [text |-> utf8_or_empty(Slice(b.storage, start, end)),
          panicked |-> FALSE]

\* TextBuffer::substring: the bytes [start, end) of the text, each of the
\* one or two slices of the storage converted on its own; panicked tells
\* whether a slice was out of range
substring(b, start, end) ==
    LET gap_offset == b.gap_end - b.gap_start IN
    IF start > end THEN [text |-> <<>>, panicked |-> TRUE]
    ELSE IF end <= b.gap_start
    THEN (IF ~InRange(b.storage, start, end)
          THEN [text |-> <<>>, panicked |-> TRUE]
          ELSE [text |-> utf8_or_empty(Slice(b.storage, start, end)),
                panicked |-> FALSE])
    ELSE IF start >= b.gap_start
    THEN (IF ~InRange(b.storage, start + gap_offset, end + gap_offset)
          THEN [text |-> <<>>, panicked |-> TRUE]
          ELSE [text |-> utf8_or_empty(Slice(b.storage, start + gap_offset,
                                             end + gap_offset)),
                panicked |-> FALSE])
    ELSE (IF \/ ~InRange(b.storage, start, b.gap_start)
             \/ ~InRange(b.storage, b.gap_end, end + gap_offset)
          THEN [text |-> <<>>, panicked |-> TRUE]
          ELSE [text |-> utf8_or_empty(Slice(b.storage, start, b.gap_start))
                           \o utf8_or_empty(Slice(b.storage, b.gap_end,
                                                  end + gap_offset)),
                panicked |-> FALSE])

\* str::trim_end_matches(c): s without the c's at its end
RECURSIVE trim_end_matches(_, _)
trim_end_matches(s, c) ==
    IF s # <<>> /\ s[Len(s)] = c
    THEN trim_end_matches(SubSeq(s, 1, Len(s) - 1), c)
    ELSE s

\* TextBuffer::line_text (and line_text_mut): result is the Option, empty
\* for None
line_text(b, line) ==
    LET b1 == rebuild_line_cache_if_needed(b) IN
    IF line >= Len(b1.line_starts)
    THEN [buf |-> b1, result |-> <<>>]
    ELSE LET start == At(b1.line_starts, line)
             end == IF line + 1 < Len(b1.line_starts)
                    THEN At(b1.line_starts, line + 1)
                    ELSE len(b1)
             sub == substring(b1, start, end)
         IN IF sub.panicked
            THEN [buf |-> [b1 EXCEPT !.panicked = TRUE], result |-> <<>>]
            ELSE [buf |-> b1,
                  result |-> << trim_end_matches(
                                    trim_end_matches(sub.text, NL), CR) >>]

-------------------------------------------------------------------------------------------------------------------------------------------------
(* The state machine: one store, operated on one call at a time *)

\* byte positions and range ends passed to the operations: up to the
\* length of the longest initial text, so beyond len() in the states with
\* a shorter text
MaxPos == MaxLen
Positions == 0..MaxPos
InitTexts == StrsUpTo(MaxLen) \cup Utf8Texts
\* initial texts one byte longer, for the moves of the gap over a span
\* longer than the gap that delete_range makes
LongTexts == StrsUpTo(MaxLen + 1)
InsTexts == StrsUpTo(MaxIns)
\* byte indices, lines and columns the line queries are called with: the
\* store they leave behind does not depend on them
QueryArgs == { 0, MaxPos }

Load(b) ==
    /\ storage = b.storage
    /\ gap_start = b.gap_start
    /\ gap_end = b.gap_end
    /\ line_starts = b.line_starts
    /\ line_cache_dirty = b.line_cache_dirty
    /\ panicked = b.panicked

Store(b) ==
    /\ storage' = b.storage
    /\ gap_start' = b.gap_start
    /\ gap_end' = b.gap_end
    /\ line_starts' = b.line_starts
    /\ line_cache_dirty' = b.line_cache_dirty
    /\ panicked' = b.panicked

\* `last` records the call that produced the current state: the operation,
\* for insert whether the position was beyond len() when it was called,
\* for delete_range whether the range had start >= end, and for from() and
\* insert the text they were given
Call(op, past_end, empty_range, text) ==
    [op |-> op, past_end |-> past_end, empty_range |-> empty_range,
     text |-> text]

\* The fields of the session around the store, as Editor::new sets them;
\* the operations of the store do not touch them
NewSession ==
    /\ undo_stack = <<>>
    /\ redo_stack = <<>>
    /\ cursor_position = <<0, 0>>
    /\ dirty = FALSE

SessionUnchanged ==
    UNCHANGED <<undo_stack, redo_stack, cursor_position, dirty>>

\* The renderer before its first call, as MarkdownRenderer::new leaves it;
\* the operations of the store and of the session do not touch it
NewRenderer ==
    /\ theme = "light"
    /\ markdown = <<>>
    /\ events = <<>>
    /\ elements = <<>>
    /\ current_element = <<>>
    /\ list_stack = <<>>
    /\ blockquote_stack = <<>>
    /\ pc = "idle"
    /\ tree = <<>>
    /\ previous = <<>>

RendererUnchanged ==
    UNCHANGED <<theme, markdown, events, elements, current_element,
                list_stack, blockquote_stack, pc, tree, previous>>

Init ==
    /\ NewSession
    /\ NewRenderer
    /\ \/ /\ Load(new)
          /\ last = Call("new", FALSE, FALSE, <<>>)
       \/ \E t \in InitTexts :
             /\ Load(from(t))
             /\ last = Call("from", FALSE, FALSE, t)

Insert(pos, text) ==
    /\ ~panicked
    /\ RendererUnchanged
    /\ Store(insert(Buf, pos, text))
    /\ last' = Call("insert", pos > len(Buf), FALSE, text)
    /\ SessionUnchanged

DeleteRange(a, b) ==
    /\ ~panicked
    /\ RendererUnchanged
    /\ Store(delete_range(Buf, a, b))
    /\ last' = Call("delete_range", FALSE, a >= b, <<>>)
    /\ SessionUnchanged

\* called with start <= end: on a range with start > end delete_range
\* returns at once and replace_range is insert(start, text)
ReplaceRange(a, b, text) ==
    /\ ~panicked
    /\ RendererUnchanged
    /\ Store(replace_range(Buf, a, b, text))
    /\ last' = Call("replace_range", FALSE, FALSE, <<>>)
    /\ SessionUnchanged

\* The line queries: each starts with rebuild_line_cache_if_needed and
\* changes nothing else of the store (line_count_mut and
\* line_col_from_byte_index_mut have the bodies of line_count and
\* line_col_from_byte_index)
LineCount ==
    /\ ~panicked
    /\ RendererUnchanged
    /\ Store(line_count(Buf).buf)
    /\ last' = Call("line_count", FALSE, FALSE, <<>>)
    /\ SessionUnchanged

LineText ==
    /\ ~panicked
    /\ RendererUnchanged
    /\ Store(rebuild_line_cache_if_needed(Buf))
    /\ last' = Call("line_text", FALSE, FALSE, <<>>)
    /\ SessionUnchanged

LineColFromByteIndex(byte_index) ==
    /\ ~panicked
    /\ RendererUnchanged
    /\ Store(line_col_from_byte_index(Buf, byte_index).buf)
    /\ last' = Call("line_col_from_byte_index", FALSE, FALSE, <<>>)
    /\ SessionUnchanged

ByteIndexFromLineCol(line, col) ==
    /\ ~panicked
    /\ RendererUnchanged
    /\ Store(byte_index_from_line_col(Buf, line, col).buf)
    /\ last' = Call("byte_index_from_line_col", FALSE, FALSE, <<>>)
    /\ SessionUnchanged

Next ==
    \/ \E pos \in Positions, text \in InsTexts : Insert(pos, text)
    \/ \E a \in Positions, b \in Positions : DeleteRange(a, b)
    \/ \E a \in Positions, b \in Positions, text \in InsTexts :
          a <= b /\ ReplaceRange(a, b, text)
    \/ LineCount
    \/ LineText
    \/ \E byte_index \in QueryArgs : LineColFromByteIndex(byte_index)
    \/ \E line \in QueryArgs, col \in QueryArgs :
          ByteIndexFromLineCol(line, col)

Spec == Init /\ [][Next]_vars

InitLong ==
    /\ NewSession
    /\ NewRenderer
    /\ \E t \in LongTexts :
          /\ Load(from(t))
          /\ last = Call("from", FALSE, FALSE, t)

SpecLong == InitLong /\ [][Next]_vars

\* The store on texts with carriage returns, for the lines line_text cuts:
\* texts of 'a', '\r' and '\n', and the two-byte character
RECURSIVE LineStrs(_)
LineStrs(n) ==
    IF n <= 0 THEN { <<>> }
    ELSE { <<>> } \cup { <<c>> \o s : c \in { 97, CR, NL }, s \in LineStrs(n - 1) }

LineTexts == LineStrs(MaxLen) \cup Utf8Texts

InitLines ==
    /\ NewSession
    /\ NewRenderer
    /\ \E t \in LineTexts :
          /\ Load(from(t))
          /\ last = Call("from", FALSE, FALSE, t)

NextLines ==
    \/ \E pos \in Positions, text \in InsTexts : Insert(pos, text)
    \/ \E a \in Positions, b \in Positions : DeleteRange(a, b)
    \/ LineText

SpecLines == InitLines /\ [][NextLines]_vars

\* the logical text of the store
T == as_str(Buf)

---------------------------------------------------------------------------
(* The editing session: Editor and its EditHistory (src/src/editor/mod.rs). *)
(* An Option is a sequence of length 0 (None) or 1 (Some).                  *)

\* the session as a record; a panic of the store is kept in buffer.panicked
Ed == [buffer |-> Buf,
       history |-> [undo_stack |-> undo_stack, redo_stack |-> redo_stack],
       cursor_position |-> cursor_position,
       dirty |-> dirty]

\* struct Edit
Edit(old_text, new_text, position, cursor_before, cursor_after) ==
    [old_text |-> old_text, new_text |-> new_text, position |-> position,
     cursor_before |-> cursor_before, cursor_after |-> cursor_after]

\* EditHistory::new
history_new == [undo_stack |-> <<>>, redo_stack |-> <<>>]

\* EditHistory::push that drops the newest record instead of the oldest
history_push_drops_newest(h, edit) ==
    LET kept == IF Len(h.undo_stack) >= max_size
                THEN SubSeq(h.undo_stack, 1, Len(h.undo_stack) - 1)
                ELSE h.undo_stack
    IN [undo_stack |-> Append(kept, edit), redo_stack |-> <<>>]

\* EditHistory::push that leaves redo_stack alone
history_push_keeps_redo(h, edit) ==
    LET kept == IF Len(h.undo_stack) >= max_size
                THEN Tail(h.undo_stack)
                ELSE h.undo_stack
    IN [undo_stack |-> Append(kept, edit), redo_stack |-> h.redo_stack]

\* EditHistory::push
history_push(h, edit) ==
    LET kept == IF Len(h.undo_stack) >= max_size
                THEN Tail(h.undo_stack)
                ELSE h.undo_stack
    IN [undo_stack |-> Append(kept, edit), redo_stack |-> <<>>]

history_undo_takes_oldest(h) ==
    IF h.undo_stack = <<>>
    THEN [history |-> h, edit |-> <<>>]
    ELSE LET edit == h.undo_stack[1]
         IN [history |-> [undo_stack |-> Tail(h.undo_stack),
                          redo_stack |-> Append(h.redo_stack, edit)],
             edit |-> <<edit>>]

\* EditHistory::undo: the history afterwards and the Option<Edit> returned
history_undo(h) ==
    IF h.undo_stack = <<>>
    THEN [history |-> h, edit |-> <<>>]
    ELSE LET n == Len(h.undo_stack)
             edit == h.undo_stack[n]
         IN [history |-> [undo_stack |-> SubSeq(h.undo_stack, 1, n - 1),
                          redo_stack |-> Append(h.redo_stack, edit)],
             edit |-> <<edit>>]

\* EditHistory::redo
history_redo(h) ==
    IF h.redo_stack = <<>>
    THEN [history |-> h, edit |-> <<>>]
    ELSE LET n == Len(h.redo_stack)
             edit == h.redo_stack[n]
         IN [history |-> [undo_stack |-> Append(h.undo_stack, edit),
                          redo_stack |-> SubSeq(h.redo_stack, 1, n - 1)],
             edit |-> <<edit>>]

\* EditHistory::clear that empties undo_stack only
history_clear_undo_only(h) ==
    [undo_stack |-> <<>>, redo_stack |-> h.redo_stack]

\* EditHistory::clear
history_clear(h) == [undo_stack |-> <<>>, redo_stack |-> <<>>]

\* Editor::new
editor_new ==
    [buffer |-> new, history |-> history_new,
     cursor_position |-> <<0, 0>>, dirty |-> FALSE]

\* Editor::text
editor_text(e) == as_str(e.buffer)

\* Editor::is_dirty
is_dirty(e) == e.dirty

\* Editor::set_text
set_text(e, t) ==
    [e EXCEPT !.buffer = from(t),
              !.dirty = FALSE,
              !.history = history_clear(@)]

\* Editor::open_file once read_to_string has returned the content (when
\* the read fails, open_file returns the error before touching the session)
open_file(e, content) ==
    [set_text(e, content) EXCEPT !.dirty = FALSE]

\* Editor::save_file once the write has succeeded
save_file(e) == [e EXCEPT !.dirty = FALSE]

\* Editor::undo
undo(e) ==
    LET popped == history_undo(e.history) IN
    IF popped.edit = <<>> THEN e
    ELSE LET edit == popped.edit[1]
             b == replace_range(e.buffer, edit.position,
                                edit.position + Len(edit.new_text),
                                edit.old_text)
         IN IF b.panicked
            THEN [e EXCEPT !.history = popped.history, !.buffer = b]
            ELSE [e EXCEPT !.history = popped.history,
                           !.buffer = b,
                           !.cursor_position = edit.cursor_before,
                           !.dirty = TRUE]

\* Editor::redo that marks the session dirty whatever the history returns
redo_always_dirty(e) ==
    LET popped == history_redo(e.history) IN
    IF popped.edit = <<>> THEN [e EXCEPT !.dirty = TRUE]
    ELSE LET edit == popped.edit[1]
             b == replace_range(e.buffer, edit.position,
                                edit.position + Len(edit.old_text),
                                edit.new_text)
         IN IF b.panicked
            THEN [e EXCEPT !.history = popped.history, !.buffer = b]
            ELSE [e EXCEPT !.history = popped.history,
                           !.buffer = b,
                           !.cursor_position = edit.cursor_after,
                           !.dirty = TRUE]

\* Editor::redo
redo(e) ==
    LET popped == history_redo(e.history) IN
    IF popped.edit = <<>> THEN e
    ELSE LET edit == popped.edit[1]
             b == replace_range(e.buffer, edit.position,
                                edit.position + Len(edit.old_text),
                                edit.new_text)
         IN IF b.panicked
            THEN [e EXCEPT !.history = popped.history, !.buffer = b]
            ELSE [e EXCEPT !.history = popped.history,
                           !.buffer = b,
                           !.cursor_position = edit.cursor_after,
                           !.dirty = TRUE]

\* Editor::can_undo
can_undo(e) == e.history.undo_stack # <<>>

\* Editor::can_redo
can_redo(e) == e.history.redo_stack # <<>>

\* Editor::insert_text: the cursor byte is the literal 0
insert_text(e, t) ==
    LET cursor_byte == 0
        b == insert(e.buffer, cursor_byte, t)
    IN IF b.panicked THEN [e EXCEPT !.buffer = b]
       ELSE [e EXCEPT !.buffer = b, !.dirty = TRUE]

\* Editor::backspace: the cursor byte is the literal 0, so the guard
\* `cursor_byte > 0` never holds
backspace(e) ==
    LET cursor_byte == 0 IN
    IF cursor_byte > 0
    THEN LET b == delete_range(e.buffer, cursor_byte - 1, cursor_byte)
         IN IF b.panicked THEN [e EXCEPT !.buffer = b]
            ELSE [e EXCEPT !.buffer = b, !.dirty = TRUE]
    ELSE e

\* RmdApp::render_editor when the panel's text has changed: the session is
\* handed the panel's whole text
panel_edit(e, t) == set_text(e, t)

\* An edit recorded as it is applied: the bytes start..end of the text are
\* replaced by new_text in the store, and the Edit that describes the
\* replacement is handed to EditHistory::push; the cursor is behind the
\* replaced bytes before the edit and behind the new text after it
record_edit(e, start, end, new_text) ==
    LET b == replace_range(e.buffer, start, end, new_text)
        cursor_before == line_col_from_byte_index(e.buffer, end).result
        cursor_after ==
            line_col_from_byte_index(b, start + Len(new_text)).result
        edit == Edit(Slice(editor_text(e), start, end), new_text, start,
                     cursor_before, cursor_after)
    IN IF b.panicked THEN [e EXCEPT !.buffer = b]
       ELSE [e EXCEPT !.buffer = b,
                      !.history = history_push(@, edit),
                      !.cursor_position = cursor_after,
                      !.dirty = TRUE]

---------------------------------------------------------------------------
(* The state machine of the session: one Editor, from Editor::new on *)

\* the text a session with recorded edits is given: three lines
RecordedTexts == { <<NL, NL, 97>> }
\* the texts a recorded edit puts in the place of at most one byte
EditTexts == { <<>>, <<NL>> }

StoreEd(e) ==
    /\ Store(e.buffer)
    /\ undo_stack' = e.history.undo_stack
    /\ redo_stack' = e.history.redo_stack
    /\ cursor_position' = e.cursor_position
    /\ dirty' = e.dirty

InitSession ==
    /\ NewSession
    /\ NewRenderer
    /\ Load(new)
    /\ last = Call("new", FALSE, FALSE, <<>>)

\* For the calls of the session `last` names the operation and the case
\* of it that the state before the call made happen
SetText(t) ==
    /\ ~panicked
    /\ RendererUnchanged
    /\ StoreEd(set_text(Ed, t))
    /\ last' = Call(IF can_undo(Ed) /\ can_redo(Ed) /\ is_dirty(Ed)
                    THEN "set_text over history" ELSE "set_text",
                    FALSE, FALSE, <<>>)

OpenFile(content) ==
    /\ ~panicked
    /\ RendererUnchanged
    /\ StoreEd(open_file(Ed, content))
    /\ last' = Call("open_file", FALSE, FALSE, <<>>)

SaveFile ==
    /\ ~panicked
    /\ RendererUnchanged
    /\ StoreEd(save_file(Ed))
    /\ last' = Call("save_file", FALSE, FALSE, <<>>)

Undo ==
    /\ ~panicked
    /\ RendererUnchanged
    /\ StoreEd(undo(Ed))
    /\ last' = Call(IF can_undo(Ed) THEN "undo" ELSE "undo on empty",
                    FALSE, FALSE, <<>>)

Redo ==
    /\ ~panicked
    /\ RendererUnchanged
    /\ StoreEd(redo(Ed))
    /\ last' = Call(IF can_redo(Ed) THEN "redo" ELSE "redo on empty",
                    FALSE, FALSE, <<>>)

InsertText(t) ==
    /\ ~panicked
    /\ RendererUnchanged
    /\ StoreEd(insert_text(Ed, t))
    /\ last' = Call("insert_text", FALSE, FALSE, t)

Backspace ==
    /\ ~panicked
    /\ RendererUnchanged
    /\ StoreEd(backspace(Ed))
    /\ last' = Call("backspace", FALSE, FALSE, <<>>)

PanelEdit(t) ==
    /\ ~panicked
    /\ RendererUnchanged
    /\ StoreEd(panel_edit(Ed, t))
    /\ last' = Call("panel_edit", FALSE, FALSE, <<>>)

Push(start, end, new_text) ==
    /\ ~panicked
    /\ RendererUnchanged
    /\ start <= end
    /\ end <= Len(T)
    /\ end - start <= 1
    /\ start < end \/ new_text # <<>>
    /\ StoreEd(record_edit(Ed, start, end, new_text))
    /\ last' = Call(IF can_redo(Ed) THEN "push over redo"
                    ELSE IF Len(undo_stack) >= max_size
                         THEN "push at max_size" ELSE "push",
                    FALSE, FALSE, <<>>)

\* The session as the program drives it: no caller hands an Edit to
\* EditHistory::push
NextSession ==
    \/ \E t \in InitTexts : SetText(t)
    \/ \E content \in InitTexts : OpenFile(content)
    \/ SaveFile
    \/ Undo
    \/ Redo
    \/ \E t \in InsTexts : InsertText(t)
    \/ Backspace
    \/ \E t \in InitTexts : PanelEdit(t)

SpecSession == InitSession /\ [][NextSession]_vars

\* The session with every change of the text recorded, as EditHistory is
\* written for: set_text, recorded edits, undo and redo
NextRecorded ==
    \/ \E t \in RecordedTexts : SetText(t)
    \/ Undo
    \/ Redo
    \/ \E start \in Positions, end \in Positions, new_text \in EditTexts :
          Push(start, end, new_text)

SpecRecorded == InitSession /\ [][NextRecorded]_vars

---------------------------------------------------------------------------
(* The Markdown renderer (src/src/markdown/mod.rs).  The markup parser is a *)
(* library: render is modelled from the event stream the parser hands it.  *)
(* Texts are sequences of bytes, as in the store.                          *)

\* pulldown_cmark::Event, as far as render tells events apart:
\* kind is Start, End, Text, Code, Html, SoftBreak, HardBreak, Rule or
\* Other; tag is the Tag / TagEnd of a Start / End; level is a heading's
\* level; ordered tells whether a list start carries a start number;
\* fenced tells whether a code block is fenced, and text is then its
\* language; text is also the content of Text, Code and Html
Event(kind, tag, level, ordered, fenced, t) ==
    [kind |-> kind, tag |-> tag, level |-> level, ordered |-> ordered,
     fenced |-> fenced, text |-> t]

StartTag(tag) == Event("Start", tag, 0, FALSE, FALSE, <<>>)
EndTag(tag) == Event("End", tag, 0, FALSE, FALSE, <<>>)
StartHeading(level) == Event("Start", "Heading", level, FALSE, FALSE, <<>>)
StartList(ordered) == Event("Start", "List", 0, ordered, FALSE, <<>>)
StartCodeBlock(fenced, lang) ==
    Event("Start", "CodeBlock", 0, FALSE, fenced, lang)
TextEvent(t) == Event("Text", "", 0, FALSE, FALSE, t)
CodeEvent(t) == Event("Code", "", 0, FALSE, FALSE, t)
HtmlEvent(t) == Event("Html", "", 0, FALSE, FALSE, t)
SoftBreak == Event("SoftBreak", "", 0, FALSE, FALSE, <<>>)
HardBreak == Event("HardBreak", "", 0, FALSE, FALSE, <<>>)
Rule == Event("Rule", "", 0, FALSE, FALSE, <<>>)

\* enum RenderedElement: el is the variant; level and text are a Heading's,
\* text a Paragraph's (and InlineCode's, RawHtml's), lang and text a
\* CodeBlock's, children a BlockQuote's elements or a list's items
Element(el, level, lang, t, children) ==
    [el |-> el, level |-> level, lang |-> lang, text |-> t,
     children |-> children]

Heading(level, t) == Element("Heading", level, <<>>, t, <<>>)
Paragraph(t) == Element("Paragraph", 0, <<>>, t, <<>>)
CodeBlock(lang, code) == Element("CodeBlock", 0, lang, code, <<>>)
InlineCode(t) == Element("InlineCode", 0, <<>>, t, <<>>)
BlockQuote(children) == Element("BlockQuote", 0, <<>>, <<>>, children)
UnorderedList(items) == Element("UnorderedList", 0, <<>>, <<>>, items)
OrderedList(items) == Element("OrderedList", 0, <<>>, <<>>, items)
HorizontalRule == Element("HorizontalRule", 0, <<>>, <<>>, <<>>)
RawHtml(t) == Element("RawHtml", 0, <<>>, t, <<>>)
LineBreak == Element("LineBreak", 0, <<>>, <<>>, <<>>)

\* the locals of render as it enters the loop; panicked tells whether the
\* call has panicked, which no line of render makes it do
render_locals ==
    [elements |-> <<>>, current_element |-> <<>>, list_stack |-> <<>>,
     blockquote_stack |-> <<>>, panicked |-> FALSE]

\* `if let Some(elem) = current_element.take() { elements.push(elem) }`
take_current(l) ==
    [l EXCEPT !.elements = @ \o l.current_element,
              !.current_element = <<>>]

\* the sequence s with its last member replaced by x
WithLast(s, x) == [s EXCEPT ![Len(s)] = x]

Last(s) == s[Len(s)]
Front(s) == SubSeq(s, 1, Len(s) - 1)

\* Event::Start(Tag::List(start_num))
start_list(l, ordered) ==
    LET l1 == take_current(l) IN
    [l1 EXCEPT !.list_stack =
                   Append(@, [ordered |-> ordered, items |-> <<>>])]

\* start_item, but the item replaces the items the list has so far
start_item_resets(l) ==
    IF l.list_stack # <<>>
    THEN [l EXCEPT !.list_stack =
                       WithLast(@, [Last(@) EXCEPT !.items = << <<>> >>])]
    ELSE l

\* Event::Start(Tag::Item)
start_item(l) ==
    IF l.list_stack # <<>>
    THEN [l EXCEPT !.list_stack =
                       WithLast(@, [Last(@) EXCEPT
                                      !.items = Append(@, <<>>)])]
    ELSE l

\* Event::Start(Tag::BlockQuote(_))
start_blockquote(l) ==
    LET l1 == take_current(l) IN
    [l1 EXCEPT !.blockquote_stack = Append(@, <<>>)]

\* Event::Start(Tag::CodeBlock(kind))
start_codeblock(l, fenced, lang) ==
    LET l1 == take_current(l) IN
    [l1 EXCEPT !.current_element =
                   << CodeBlock(IF fenced THEN lang ELSE <<>>, <<>>) >>]

end_list_unordered(l) ==
    IF l.list_stack # <<>>
    THEN LET frame == Last(l.list_stack)
             l1 == take_current([l EXCEPT !.list_stack = Front(@)])
         IN [l1 EXCEPT !.elements = Append(@, UnorderedList(frame.items))]
    ELSE l

\* Event::End(TagEnd::List(_))
end_list(l) ==
    IF l.list_stack # <<>>
    THEN LET frame == Last(l.list_stack)
             l1 == take_current([l EXCEPT !.list_stack = Front(@)])
         IN [l1 EXCEPT !.elements =
                           Append(@, IF frame.ordered
                                     THEN OrderedList(frame.items)
                                     ELSE UnorderedList(frame.items))]
    ELSE l

end_blockquote_unwraps(l) ==
    IF l.blockquote_stack # <<>>
    THEN LET items == Last(l.blockquote_stack)
             l1 == take_current([l EXCEPT !.blockquote_stack = Front(@)])
         IN [l1 EXCEPT !.elements = Append(@, BlockQuote(items))]
    ELSE [l EXCEPT !.panicked = TRUE]

\* Event::End(TagEnd::BlockQuote(_))
end_blockquote(l) ==
    IF l.blockquote_stack # <<>>
    THEN LET items == Last(l.blockquote_stack)
             l1 == take_current([l EXCEPT !.blockquote_stack = Front(@)])
         IN [l1 EXCEPT !.elements = Append(@, BlockQuote(items))]
    ELSE l

\* Event::End(TagEnd::CodeBlock)
end_codeblock(l) == take_current(l)

text_event_replaces(l, t) ==
    IF l.current_element # <<>>
    THEN LET elem == l.current_element[1] IN
         IF elem.el \in { "CodeBlock", "Paragraph" }
         THEN [l EXCEPT !.current_element = << [elem EXCEPT !.text = t] >>]
         ELSE l
    ELSE IF l.list_stack # <<>>
    THEN LET last_frame == Last(l.list_stack) IN
         IF last_frame.items # <<>>
         THEN [l EXCEPT !.list_stack =
                  WithLast(@, [last_frame EXCEPT
                     !.items = WithLast(@, Append(Last(@), Paragraph(t)))])]
         ELSE l
    ELSE IF l.blockquote_stack # <<>>
    THEN [l EXCEPT !.blockquote_stack =
                       WithLast(@, Append(Last(@), Paragraph(t)))]
    ELSE [l EXCEPT !.elements = Append(@, Paragraph(t))]

text_event_quote_first(l, t) ==
    IF l.current_element # <<>>
    THEN LET elem == l.current_element[1] IN
         IF elem.el \in { "CodeBlock", "Paragraph" }
         THEN [l EXCEPT !.current_element = << [elem EXCEPT !.text = @ \o t] >>]
         ELSE l
    ELSE IF l.blockquote_stack # <<>>
    THEN [l EXCEPT !.blockquote_stack =
                       WithLast(@, Append(Last(@), Paragraph(t)))]
    ELSE IF l.list_stack # <<>>
    THEN LET last_frame == Last(l.list_stack) IN
         IF last_frame.items # <<>>
         THEN [l EXCEPT !.list_stack =
                  WithLast(@, [last_frame EXCEPT
                     !.items = WithLast(@, Append(Last(@), Paragraph(t)))])]
         ELSE l
    ELSE [l EXCEPT !.elements = Append(@, Paragraph(t))]

\* Event::Text(text)
text_event(l, t) ==
    IF l.current_element # <<>>
    THEN LET elem == l.current_element[1] IN
         IF elem.el \in { "CodeBlock", "Paragraph" }
         THEN [l EXCEPT !.current_element = << [elem EXCEPT !.text = @ \o t] >>]
         ELSE l
    ELSE IF l.list_stack # <<>>
    THEN LET last_frame == Last(l.list_stack) IN
         IF last_frame.items # <<>>
         THEN [l EXCEPT !.list_stack =
                  WithLast(@, [last_frame EXCEPT
                     !.items = WithLast(@, Append(Last(@), Paragraph(t)))])]
         ELSE l
    ELSE IF l.blockquote_stack # <<>>
    THEN [l EXCEPT !.blockquote_stack =
                       WithLast(@, Append(Last(@), Paragraph(t)))]
    ELSE [l EXCEPT !.elements = Append(@, Paragraph(t))]

code_event_into_quote(l, t) ==
    IF l.list_stack # <<>>
    THEN LET last_frame == Last(l.list_stack) IN
         IF last_frame.items # <<>>
         THEN [l EXCEPT !.list_stack =
                  WithLast(@, [last_frame EXCEPT
                     !.items = WithLast(@, Append(Last(@), InlineCode(t)))])]
         ELSE l
    ELSE IF l.blockquote_stack # <<>>
    THEN [l EXCEPT !.blockquote_stack =
                       WithLast(@, Append(Last(@), InlineCode(t)))]
    ELSE [l EXCEPT !.elements = Append(@, InlineCode(t))]

\* Event::Code(code)
code_event(l, t) ==
    IF l.list_stack # <<>>
    THEN LET last_frame == Last(l.list_stack) IN
         IF last_frame.items # <<>>
         THEN [l EXCEPT !.list_stack =
                  WithLast(@, [last_frame EXCEPT
                     !.items = WithLast(@, Append(Last(@), InlineCode(t)))])]
         ELSE l
    ELSE [l EXCEPT !.elements = Append(@, InlineCode(t))]

html_event_into_quote(l, t) ==
    IF l.blockquote_stack # <<>>
    THEN [l EXCEPT !.blockquote_stack =
                       WithLast(@, Append(Last(@), RawHtml(t)))]
    ELSE [l EXCEPT !.elements = Append(@, RawHtml(t))]

\* Event::Html(html)
html_event(l, t) == [l EXCEPT !.elements = Append(@, RawHtml(t))]

\* Event::HardBreak
hard_break(l) ==
    IF l.current_element # <<>>
    THEN LET elem == l.current_element[1] IN
         IF elem.el = "Paragraph"
         THEN [l EXCEPT !.current_element =
                            << [elem EXCEPT !.text = Append(@, NL)] >>]
         ELSE l
    ELSE [l EXCEPT !.elements = Append(@, LineBreak)]

\* Event::Rule
rule_event(l) == [l EXCEPT !.elements = Append(@, HorizontalRule)]

\* the body of the loop of render: `match event`
match_event(l, event) ==
    CASE event.kind = "Start" ->
            (CASE event.tag = "List" -> start_list(l, event.ordered)
               [] event.tag = "Item" -> start_item(l)
               [] event.tag = "BlockQuote" -> start_blockquote(l)
               [] event.tag = "CodeBlock" ->
                      start_codeblock(l, event.fenced, event.text)
               [] OTHER -> l)
      [] event.kind = "End" ->
            (CASE event.tag = "List" -> end_list(l)
               [] event.tag = "BlockQuote" -> end_blockquote(l)
               [] event.tag = "CodeBlock" -> end_codeblock(l)
               [] OTHER -> l)
      [] event.kind = "Text" -> text_event(l, event.text)
      [] event.kind = "Code" -> code_event(l, event.text)
      [] event.kind = "Html" -> html_event(l, event.text)
      [] event.kind = "SoftBreak" -> l
      [] event.kind = "HardBreak" -> hard_break(l)
      [] event.kind = "Rule" -> rule_event(l)
      [] OTHER -> l

\* the end of render: the element still open is added and elements returned
render_return(l) == take_current(l).elements

\* MarkdownRenderer::render on the events the parser yields for the text
RECURSIVE render_from(_, _)
render_from(l, evs) ==
    IF evs = <<>> THEN render_return(l)
    ELSE render_from(match_event(l, Head(evs)), Tail(evs))

render(evs) == render_from(render_locals, evs)

\* Preview::generate_toc over the elements of the preview
generate_toc(els) ==
    LET headings == SelectSeq(els, LAMBDA x : x.el = "Heading")
    IN [i \in 1..Len(headings) |-> <<headings[i].level, headings[i].text>>]

---------------------------------------------------------------------------
(* The event streams render is run on: the streams the parser yields for   *)
(* bounded documents, and every short stream over the block events, as a   *)
(* caller of the loop could be handed.                                     *)

\* most items of a list of Documents
MaxItems == 2
\* most events of a stream of Streams
MaxStream == 2

\* "a" and "b"
Texts == { <<97>>, <<98>> }
\* "rust"
Rust == <<114, 117, 115, 116>>
Themes == { "light", "dark" }

\* the sequences of the members of seqs, one after the other
RECURSIVE Concat(_)
Concat(seqs) ==
    IF seqs = <<>> THEN <<>> ELSE Head(seqs) \o Concat(Tail(seqs))

\* all sequences over S of lengths lo..hi
SeqsOf(S, lo, hi) == UNION { [1..n -> S] : n \in lo..hi }

\* the inline content of a paragraph or a heading: one text, or a first
\* text followed by a soft break, emphasis, a hard break, a code span or
\* inline HTML, which split the content into several events
OneText == { << TextEvent(t) >> : t \in Texts }
SplitRuns ==
    { << TextEvent(<<97>>), SoftBreak, TextEvent(<<98>>) >>,
      << TextEvent(<<97>>), StartTag("Emphasis"), TextEvent(<<98>>),
         EndTag("Emphasis") >>,
      << TextEvent(<<97>>), HardBreak, TextEvent(<<98>>) >>,
      << TextEvent(<<97>>), CodeEvent(<<98>>) >>,
      << TextEvent(<<97>>), Event("InlineHtml", "", 0, FALSE, FALSE, <<98>>) >> }
InlineRuns == OneText \cup SplitRuns

HeadingBlock(level, run) ==
    << StartHeading(level) >> \o run \o << EndTag("Heading") >>
ParagraphBlock(run) ==
    << StartTag("Paragraph") >> \o run \o << EndTag("Paragraph") >>
\* an item of a tight list: its text is not wrapped in a paragraph
ItemBlock(content) ==
    << StartTag("Item") >> \o content \o << EndTag("Item") >>
ListBlock(ordered, item_blocks) ==
    << StartList(ordered) >> \o Concat(item_blocks) \o << EndTag("List") >>
QuoteBlock(content) ==
    << StartTag("BlockQuote") >> \o content \o << EndTag("BlockQuote") >>
CodeBlockBlock(fenced, lang, lines) ==
    << StartCodeBlock(fenced, lang) >>
        \o [i \in 1..Len(lines) |-> TextEvent(lines[i])]
        \o << EndTag("CodeBlock") >>
HtmlBlock(t) ==
    << StartTag("HtmlBlock"), HtmlEvent(t), EndTag("HtmlBlock") >>

HeadingDocs ==
    { HeadingBlock(level, run) :
        level \in 1..6, run \in OneText \cup { << TextEvent(<<97>>), SoftBreak, TextEvent(<<98>>) >> } }
ParagraphDocs == { ParagraphBlock(run) : run \in InlineRuns }
\* lists of 1..MaxItems items holding one plain text each
PlainListDocs ==
    { ListBlock(ordered, [i \in 1..Len(ts) |-> ItemBlock(<< TextEvent(ts[i]) >>)]) :
        ordered \in BOOLEAN, ts \in SeqsOf(Texts, 1, MaxItems) }
\* a list whose only item holds a text and a list of one item
NestedListDocs ==
    { ListBlock(outer, << ItemBlock(<< TextEvent(<<97>>) >>
                            \o ListBlock(inner, << ItemBlock(<< TextEvent(<<98>>) >>) >>)) >>) :
        outer \in BOOLEAN, inner \in BOOLEAN }
\* quotes of one or two paragraphs
QuoteDocs ==
    { QuoteBlock(Concat([i \in 1..Len(runs) |-> ParagraphBlock(runs[i])])) :
        runs \in SeqsOf(OneText \cup { << TextEvent(<<97>>), SoftBreak, TextEvent(<<98>>) >> }, 1, 2) }
\* a list in a quote, and a quote in the item of a list
MixedDocs ==
    { QuoteBlock(ListBlock(FALSE, << ItemBlock(<< TextEvent(<<97>>) >>) >>)),
      QuoteBlock(ParagraphBlock(<< TextEvent(<<98>>) >>)
                 \o ListBlock(FALSE, << ItemBlock(<< TextEvent(<<97>>) >>) >>)),
      ListBlock(FALSE, << ItemBlock(QuoteBlock(ParagraphBlock(<< TextEvent(<<97>>) >>))) >>),
      ListBlock(FALSE, << ItemBlock(CodeBlockBlock(TRUE, <<>>, << <<97, NL>> >>)) >>) }
\* code blocks, fenced with or without a language or indented, of 0..2
\* lines, each line a text event
CodeDocs ==
    { CodeBlockBlock(k[1], k[2], lines) :
        k \in { <<TRUE, Rust>>, <<TRUE, <<>> >>, <<FALSE, <<>> >> },
        lines \in SeqsOf({ <<97, NL>>, <<98, NL>> }, 0, 2) }
OtherDocs == { << Rule >>, HtmlBlock(<<97>>) }
\* a code span, raw HTML, a rule and a hard break inside a quote and inside
\* the item of a list
NestedInlineDocs ==
    { QuoteBlock(ParagraphBlock(<< TextEvent(<<97>>), CodeEvent(<<98>>) >>)),
      QuoteBlock(ParagraphBlock(<< TextEvent(<<97>>), HardBreak,
                                   TextEvent(<<98>>) >>)),
      QuoteBlock(HtmlBlock(<<97>>)),
      QuoteBlock(<< Rule >>),
      ListBlock(FALSE, << ItemBlock(<< TextEvent(<<97>>), CodeEvent(<<98>>) >>) >>),
      ListBlock(FALSE, << ItemBlock(<< TextEvent(<<97>>), HardBreak,
                                       TextEvent(<<98>>) >>) >>),
      ListBlock(FALSE, << ItemBlock(HtmlBlock(<<97>>)) >>),
      ListBlock(FALSE, << ItemBlock(<< TextEvent(<<97>>) >>), << Rule >> >>) }

\* a paragraph after the inner list of an item, a quote in a quote, and a
\* second item after an item that holds a list
DeepDocs ==
    { ListBlock(FALSE,
        << ItemBlock(ParagraphBlock(<< TextEvent(<<97>>) >>)
                     \o ListBlock(FALSE, << ItemBlock(<< TextEvent(<<98>>) >>) >>)
                     \o ParagraphBlock(<< TextEvent(<<97>>) >>)) >>),
      QuoteBlock(QuoteBlock(ParagraphBlock(<< TextEvent(<<97>>) >>))
                 \o ParagraphBlock(<< TextEvent(<<98>>) >>)),
      ListBlock(TRUE,
        << ItemBlock(<< TextEvent(<<97>>) >>
                     \o ListBlock(FALSE, << ItemBlock(<< TextEvent(<<98>>) >>) >>)),
           ItemBlock(<< TextEvent(<<98>>) >>) >>) }

SingleBlocks ==
    HeadingDocs \cup ParagraphDocs \cup PlainListDocs \cup NestedListDocs
        \cup QuoteDocs \cup MixedDocs \cup CodeDocs \cup OtherDocs
        \cup NestedInlineDocs \cup DeepDocs

\* a second block after a first
TwoBlocks ==
    { first \o second :
        first \in { CodeBlockBlock(TRUE, Rust, << <<97, NL>> >>),
                    ParagraphBlock(<< TextEvent(<<97>>) >>),
                    ListBlock(FALSE, << ItemBlock(<< TextEvent(<<97>>) >>) >>) },
        second \in { ParagraphBlock(<< TextEvent(<<98>>) >>),
                     HeadingBlock(2, << TextEvent(<<98>>) >>),
                     QuoteBlock(ParagraphBlock(<< TextEvent(<<98>>) >>)) } }

\* "Title", "plain text", "quoted" and "code" with its line end
Title == <<84, 105, 116, 108, 101>>
PlainText == <<112, 108, 97, 105, 110, 32, 116, 101, 120, 116>>
Quoted == <<113, 117, 111, 116, 101, 100>>
CodeLine == <<99, 111, 100, 101, NL>>

\* the streams of "# Title", "plain text", "> quoted" and of "code"
\* fenced as rust
LiteralDocs ==
    { HeadingBlock(1, << TextEvent(Title) >>),
      ParagraphBlock(<< TextEvent(PlainText) >>),
      QuoteBlock(ParagraphBlock(<< TextEvent(Quoted) >>)),
      CodeBlockBlock(TRUE, Rust, << CodeLine >>) }

\* the streams of the parser
Parsed == { <<>> } \cup SingleBlocks \cup TwoBlocks \cup LiteralDocs

\* the events of the short streams
BlockEvents ==
    { StartList(FALSE), StartTag("Item"), StartTag("BlockQuote"),
      StartCodeBlock(TRUE, Rust), EndTag("List"), EndTag("BlockQuote"),
      TextEvent(<<97>>) }
\* a code span, raw HTML, a rule and the breaks where the parser does not
\* put them: in a list with no item, and in an open code block
BrokenStreams ==
    { << StartList(FALSE), CodeEvent(<<97>>) >>,
      << StartTag("BlockQuote"), StartList(FALSE), CodeEvent(<<97>>) >>,
      << StartCodeBlock(TRUE, Rust), CodeEvent(<<97>>) >>,
      << StartCodeBlock(TRUE, Rust), HtmlEvent(<<97>>), Rule >>,
      << StartCodeBlock(TRUE, Rust), HardBreak >>,
      << StartCodeBlock(TRUE, Rust), SoftBreak, TextEvent(<<97>>) >> }
Streams == SeqsOf(BlockEvents, 0, MaxStream) \cup BrokenStreams

Documents == Parsed \cup Streams

\* the texts whose first tree is kept to compare later calls with
ReferenceDocs ==
    { ListBlock(FALSE, << ItemBlock(<< TextEvent(<<97>>) >>) >>),
      << StartList(FALSE), StartTag("Item") >> }

---------------------------------------------------------------------------
(* The renderer as a state machine: one call of render at a time, one step *)
(* per event of the parser.  pc is where the call stands: "idle" before    *)
(* the first call, "loop" inside `for event in parser`, "returned" after.  *)

\* the locals of the running call
Locals ==
    [elements |-> elements, current_element |-> current_element,
     list_stack |-> list_stack, blockquote_stack |-> blockquote_stack,
     panicked |-> panicked]

SetLocals(l) ==
    /\ elements' = l.elements
    /\ current_element' = l.current_element
    /\ list_stack' = l.list_stack
    /\ blockquote_stack' = l.blockquote_stack
    /\ panicked' = l.panicked

\* the store and the session are not touched by the renderer
EditorUnchanged ==
    UNCHANGED <<storage, gap_start, gap_end, line_starts, line_cache_dirty,
                last, undo_stack, redo_stack, cursor_position, dirty>>

Render_keeps_locals(doc) ==
    /\ ~panicked
    /\ pc # "loop"
    /\ markdown' = doc
    /\ events' = doc
    /\ UNCHANGED <<elements, current_element, list_stack, blockquote_stack,
                   panicked>>
    /\ pc' = "loop"
    /\ tree' = <<>>
    /\ previous' = IF previous # <<>> /\ doc # previous[1].markdown
                   THEN << [previous[1] EXCEPT !.between = TRUE] >>
                   ELSE previous
    /\ UNCHANGED theme
    /\ EditorUnchanged

\* render(markdown): the parser is made and the locals are initialised
Render(doc) ==
    /\ ~panicked
    /\ pc # "loop"
    /\ markdown' = doc
    /\ events' = doc
    /\ SetLocals(render_locals)
    /\ pc' = "loop"
    /\ tree' = <<>>
    /\ previous' = IF previous # <<>> /\ doc # previous[1].markdown
                   THEN << [previous[1] EXCEPT !.between = TRUE] >>
                   ELSE previous
    /\ UNCHANGED theme
    /\ EditorUnchanged

\* one turn of the loop on an event of the given kind
Loop(kind) ==
    /\ ~panicked
    /\ pc = "loop"
    /\ events # <<>>
    /\ Head(events).kind = kind
    /\ SetLocals(match_event(Locals, Head(events)))
    /\ events' = Tail(events)
    /\ UNCHANGED <<theme, markdown, pc, tree, previous>>
    /\ EditorUnchanged

OnStart == Loop("Start")
OnEnd == Loop("End")
OnText == Loop("Text")
OnCode == Loop("Code")
OnHtml == Loop("Html")
OnSoftBreak == Loop("SoftBreak")
OnHardBreak == Loop("HardBreak")
OnRule == Loop("Rule")
OnOther == Loop("InlineHtml")

\* the parser is exhausted: the open element is added and the elements
\* are returned; previous keeps the first tree returned for a text of
\* ReferenceDocs and the theme it was rendered under, to compare later
\* calls on the same text with, and tells whether another text has been
\* rendered in between
Return ==
    /\ ~panicked
    /\ pc = "loop"
    /\ events = <<>>
    /\ tree' = render_return(Locals)
    /\ pc' = "returned"
    /\ previous' = IF previous = <<>> /\ markdown \in ReferenceDocs
                   THEN << [markdown |-> markdown,
                            tree |-> render_return(Locals),
                            theme |-> theme, between |-> FALSE] >>
                   ELSE previous
    /\ UNCHANGED <<theme, markdown, events, elements, current_element,
                   list_stack, blockquote_stack, panicked>>
    /\ EditorUnchanged

\* MarkdownRenderer::set_theme, between two calls of render
SetTheme(th) ==
    /\ ~panicked
    /\ pc # "loop"
    /\ theme' = th
    /\ UNCHANGED <<markdown, events, elements, current_element, list_stack,
                   blockquote_stack, pc, tree, previous, panicked>>
    /\ EditorUnchanged

InitRender ==
    /\ NewSession
    /\ NewRenderer
    /\ Load(new)
    /\ last = Call("new", FALSE, FALSE, <<>>)

NextRender ==
    \/ \E doc \in Documents : Render(doc)
    \/ OnStart
    \/ OnEnd
    \/ OnText
    \/ OnCode
    \/ OnHtml
    \/ OnSoftBreak
    \/ OnHardBreak
    \/ OnRule
    \/ OnOther
    \/ Return
    \/ \E th \in Themes : SetTheme(th)

SpecRender == InitRender /\ [][NextRender]_vars

---------------------------------------------------------------------------
(* Properties of the text store.  T is the logical text as_str() returns;  *)
(* a property of an operation is stated for every argument of the bounded  *)
(* sets, applied to every state the store can reach.                       *)

\* T[0..pos] + s + T[pos..]
Spliced(t, pos, s) == Slice(t, 0, pos) \o s \o Slice(t, pos, Len(t))

\* C1: in every reachable state with logical text T, insert(pos, s) with
\* pos <= len(T) completes normally and leaves as_str() == T[0..pos] + s +
\* T[pos..] and len() == len(T) + len(s), also when the gap has to grow
C1_InsertSplices ==
    ~panicked =>
        \A pos \in Positions, s \in InsTexts :
            pos <= Len(T) =>
                LET r == insert(Buf, pos, s) IN
                /\ ~r.panicked
                /\ as_str(r) = Spliced(T, pos, s)
                /\ len(r) = Len(T) + Len(s)

\* C2: move_gap(p) with p <= len() ends with gap_start == p, the gap size
\* unchanged, and zone 1 followed by zone 3 equal to what they were before
C2_MoveGapKeepsText ==
    ~panicked =>
        \A p \in Positions :
            p <= len(Buf) =>
                LET r == move_gap(Buf, p) IN
                /\ ~r.panicked
                /\ r.gap_start = p
                /\ r.gap_end - r.gap_start = gap_end - gap_start
                /\ raw_text(r) = raw_text(Buf)

\* C3: delete_range(a..b) with a < b leaves as_str() == T[0..min(a,len)] +
\* T[min(b,len)..] and reduces len() by min(b,len) - min(a,len); ends
\* beyond len() are clamped and cause no failure
C3_DeleteRangeCuts ==
    ~panicked =>
        \A a \in Positions, b \in Positions :
            a < b =>
                LET n == Len(T)
                    start == Min(a, n)
                    end == Min(b, n)
                    r == delete_range(Buf, a, b)
                IN /\ ~r.panicked
                   /\ as_str(r) = Slice(T, 0, start) \o Slice(T, end, n)
                   /\ len(r) = len(Buf) - (end - start)

\* C4: from a store holding T, insert(p, s) followed by
\* delete_range(p..p+len(s)) leaves as_str() == T
C4_InsertDeleteInverse ==
    ~panicked =>
        \A p \in Positions, s \in InsTexts :
            p <= Len(T) =>
                LET r1 == insert(Buf, p, s)
                    r2 == delete_range(r1, p, p + Len(s))
                IN /\ ~r1.panicked
                   /\ ~r2.panicked
                   /\ as_str(r2) = T

\* C5: from(text) holds exactly text: as_str() == text and len() is the
\* number of bytes of text
C5_FromRoundTrip ==
    last.op = "from" =>
        /\ as_str(Buf) = last.text
        /\ len(Buf) = Len(last.text)

C5_Witness ==
    /\ last.op = "from"
    /\ last.text = <<195, 169>>
    /\ as_str(Buf) = <<195, 169>>
    /\ len(Buf) = 2

\* C6: when insert has to enlarge the gap, grow_gap(additional) completes
\* without indexing outside the storage, enlarges the gap by exactly
\* `additional` and keeps the bytes of the zones before and after the gap
C6_GrowGapKeepsText ==
    ~panicked =>
        \A pos \in Positions, s \in InsTexts :
            LET b1 == move_gap(Buf, pos)
                gap_size == b1.gap_end - b1.gap_start
                additional == Max(Len(s) - gap_size, Len(b1.storage) \div 2)
                g == grow_gap(b1, additional)
            IN (~b1.panicked /\ Len(s) > gap_size) =>
                /\ ~g.panicked
                /\ g.gap_end - g.gap_start = gap_size + additional
                /\ zone1(g) = zone1(b1)
                /\ zone3(g) = zone3(b1)
                /\ as_str(g) = as_str(b1)

\* C7: in every reachable state the cursors satisfy
\* 0 <= gap_start <= gap_end <= capacity (the storage length), and len()
\* == capacity - (gap_end - gap_start), which is the number of bytes in
\* the two text zones
C7_CursorsInOrder ==
    /\ 0 <= gap_start
    /\ gap_start <= gap_end
    /\ gap_end <= Len(storage)
    /\ len(Buf) = Len(storage) - (gap_end - gap_start)
    /\ len(Buf) = Len(raw_text(Buf))

C7_Witness ==
    /\ ~panicked
    /\ last.op = "insert"
    /\ last.text # <<>>
    /\ 0 < gap_start
    /\ gap_start < gap_end
    /\ gap_end < Len(storage)

\* C8 (as stated): insert(byte_pos, text) with byte_pos > len() signals a
\* failure instead of inserting the text
C8_InsertPastEndFails ==
    ~panicked =>
        \A pos \in Positions, s \in InsTexts :
            pos > len(Buf) =>
                LET r == insert(Buf, pos, s) IN
                /\ r.panicked
                /\ raw_text(r) = raw_text(Buf)

\* C8 (amended): insert(byte_pos, text) with byte_pos > len() signals no
\* out-of-range failure: the position is clamped to len() and the call
\* ends in exactly the state insert(len(), text) ends in; when the text
\* fits in the gap its bytes are appended behind the last byte of the store
C8_InsertPastEndClamps ==
    ~panicked =>
        \A pos \in Positions, s \in InsTexts :
            pos > len(Buf) =>
                LET r == insert(Buf, pos, s) IN
                /\ r = insert(Buf, len(Buf), s)
                /\ Len(s) <= gap_end - gap_start =>
                      /\ ~r.panicked
                      /\ raw_text(r) = raw_text(Buf) \o s
                      /\ r.gap_end = Len(r.storage)

C8_Witness ==
    /\ ~panicked
    /\ last.op = "insert"
    /\ last.past_end
    /\ last.text = <<97>>
    /\ as_str(Buf) = <<NL, 97>>
    /\ gap_end = Len(storage)

\* C9: delete_range(a..b) with a >= b is a no-op: the text, the gap, the
\* line index and line_cache_dirty are all unchanged, and it does not fail
C9_EmptyRangeNoOp ==
    ~panicked =>
        \A a \in Positions, b \in Positions :
            a >= b => delete_range(Buf, a, b) = Buf

C9_Witness ==
    /\ ~panicked
    /\ last.op = "delete_range"
    /\ last.empty_range
    /\ ~line_cache_dirty
    /\ gap_start < gap_end
    /\ gap_start < len(Buf)

\* C10: replace_range(a..b, t) leaves the store in the state reached by
\* delete_range(a..b) followed by insert(a, t); for a <= b <= len() on
\* text T the result is T[0..a] + t + T[b..]
C10_ReplaceIsDeleteThenInsert ==
    ~panicked =>
        \A a \in Positions, b \in Positions, t \in InsTexts :
            LET r == replace_range(Buf, a, b, t)
                d == delete_range(Buf, a, b)
            IN /\ ~d.panicked
               /\ r = insert(d, a, t)
               /\ (a <= b /\ b <= Len(T)) =>
                     /\ ~r.panicked
                     /\ as_str(r) = Slice(T, 0, a) \o t \o Slice(T, b, Len(T))

\* The offsets at which a line of text begins: 0, and i + 1 for every index
\* i that holds a newline
LineBegins(text) ==
    {0} \cup { i + 1 : i \in { j \in 0..(Len(text) - 1) : At(text, j) = NL } }

StrictlyIncreasing(seq) ==
    \A i \in 1..(Len(seq) - 1) : seq[i] < seq[i + 1]

NewlineCount(text) ==
    Cardinality({ i \in 0..(Len(text) - 1) : At(text, i) = NL })

EndsWithNewline(text) ==
    Len(text) > 0 /\ At(text, Len(text) - 1) = NL

C13_LineColLocatesByte ==
    (~panicked /\ last.op = "line_col_from_byte_index") =>
        \A byte_index \in 0..len(Buf) :
            \A r \in { line_col_from_byte_index(Buf, byte_index) } :
                LET starts == r.buf.line_starts
                    l == r.result[1]
                    c == r.result[2]
                IN /\ l < Len(starts)
                   /\ At(starts, l) <= byte_index
                   /\ (l + 1 < Len(starts)) => byte_index < At(starts, l + 1)
                   /\ c = byte_index - At(starts, l)
                   /\ (\E i \in 0..(Len(starts) - 1) :
                          At(starts, i) = byte_index) => c = 0

\* C13 happens: line_col_from_byte_index ran on a text whose second line
\* starts at byte 2, so that the indices 0..3 fall on line starts and
\* inside lines
C13_Witness ==
    /\ ~panicked
    /\ last.op = "line_col_from_byte_index"
    /\ T = <<97, NL, 97>>
    /\ line_starts = <<0, 2>>
    /\ line_col_from_byte_index(Buf, 2).result = <<1, 0>>
    /\ line_col_from_byte_index(Buf, 3).result = <<1, 1>>

\* C14: byte_index_from_line_col never fails: for a line at or past
\* line_count() it returns len(); for a line that exists it returns the
\* line's start plus the smaller of col and the line's extent (up to the
\* next line's start, or len() for the last line); no result exceeds len().
\* Stated in the states a call of byte_index_from_line_col has left, which
\* hold every store that can be reached, with its line cache rebuilt by
\* the call
C14_ByteIndexClamps ==
    (~panicked /\ last.op = "byte_index_from_line_col") =>
        \A count \in { line_count(Buf).result } :
            \A line \in 0..(count + 1), col \in 0..(len(Buf) + 1) :
                \A r \in { byte_index_from_line_col(Buf, line, col) } :
                    LET starts == r.buf.line_starts
                        extent == IF line + 1 < count
                                  THEN At(starts, line + 1) - At(starts, line)
                                  ELSE len(Buf) - At(starts, line)
                    IN /\ ~r.buf.panicked
                       /\ line >= count => r.result = len(Buf)
                       /\ line < count =>
                             /\ extent >= 0
                             /\ r.result = At(starts, line) + Min(col, extent)
                       /\ r.result <= len(Buf)

\* C14 happens: byte_index_from_line_col ran on a text of two lines, where
\* a column past the end of line 0 is clamped to the start of line 1 and a
\* line past the last one gives len()
C14_Witness ==
    /\ ~panicked
    /\ last.op = "byte_index_from_line_col"
    /\ T = <<97, NL, 97>>
    /\ byte_index_from_line_col(Buf, 0, 3).result = 2
    /\ byte_index_from_line_col(Buf, 1, 3).result = 3
    /\ byte_index_from_line_col(Buf, 2, 0).result = 3

---------------------------------------------------------------------------
(* Properties of the session.  A property of an operation is stated for    *)
(* every argument of the bounded sets, applied to every state the session  *)
(* can reach.                                                              *)

\* undo() repeated until can_undo() is false, or the store has panicked
RECURSIVE undo_all(_)
undo_all(e) ==
    IF e.buffer.panicked \/ ~can_undo(e) THEN e ELSE undo_all(undo(e))

\* redo() repeated until can_redo() is false, or the store has panicked
RECURSIVE redo_all(_)
redo_all(e) ==
    IF e.buffer.panicked \/ ~can_redo(e) THEN e ELSE redo_all(redo(e))

\* C15: every mutation of the session that changes the text (insert_text,
\* backspace, an edit arriving from the editor panel) records an Edit:
\* can_undo() is true right after it and undo() brings back the text from
\* before it
C15_MutationsAreRecorded ==
    ~panicked =>
        \A t \in InitTexts :
            \A r \in { insert_text(Ed, t), backspace(Ed), panel_edit(Ed, t) } :
                (~r.buffer.panicked /\ editor_text(r) # editor_text(Ed)) =>
                    /\ can_undo(r)
                    /\ editor_text(undo(r)) = editor_text(Ed)

\* C16: after any sequence of recorded edits, undo() until can_undo() is
\* false followed by redo() until can_redo() is false ends, without a
\* panic, in the text there was before the first undo; in every state
\* can_undo() is true exactly when undo_stack is not empty and can_redo()
\* exactly when redo_stack is not empty
C16_UndoRedoSymmetry ==
    ~panicked =>
        /\ can_undo(Ed) <=> Len(undo_stack) > 0
        /\ can_redo(Ed) <=> Len(redo_stack) > 0
        /\ redo_stack = <<>> =>
              LET r == redo_all(undo_all(Ed))
              IN /\ ~r.buffer.panicked
                 /\ editor_text(r) = editor_text(Ed)

\* the recorded edits that can be made in the current state: start..end is
\* a range of the text of at most one byte, replaced by new_text
RecordableEdits ==
    { a \in [start : 0..Len(T), end : 0..Len(T), new_text : EditTexts] :
        /\ a.start <= a.end
        /\ a.end - a.start <= 1
        /\ a.start < a.end \/ a.new_text # <<>> }

\* C17: neither stack ever holds more than max_size records; a push that
\* finds undo_stack at max_size drops exactly the oldest record, keeps the
\* others in their order and puts the new record on top; a push that finds
\* room only adds the new record on top
C17_HistoryCap ==
    ~panicked =>
        /\ Len(undo_stack) <= max_size
        /\ Len(redo_stack) <= max_size
        /\ \A a \in RecordableEdits :
              \A r \in { record_edit(Ed, a.start, a.end, a.new_text) } :
                  LET after == r.history.undo_stack
                      n == Len(undo_stack)
                  IN ~r.buffer.panicked =>
                        /\ Len(after) =
                              IF n >= max_size THEN max_size ELSE n + 1
                        /\ after[Len(after)].new_text = a.new_text
                        /\ after[Len(after)].position = a.start
                        /\ after[Len(after)].old_text =
                              Slice(T, a.start, a.end)
                        /\ \A i \in 1..(Len(after) - 1) :
                              after[i] = undo_stack[IF n >= max_size
                                                    THEN i + 1 ELSE i]

\* C17 happens: a push has found undo_stack at max_size, and the two
\* records on it differ
C17_Witness ==
    /\ ~panicked
    /\ last.op = "push at max_size"
    /\ Len(undo_stack) = max_size
    /\ undo_stack[1] # undo_stack[max_size]

\* C18: a push leaves redo_stack empty, whatever it held before, so that
\* can_redo() is false right after a recorded edit
C18_PushClearsRedo ==
    ~panicked =>
        /\ last.op \in { "push", "push at max_size", "push over redo" } =>
              (redo_stack = <<>> /\ ~can_redo(Ed))
        /\ \A a \in RecordableEdits :
              \A r \in { record_edit(Ed, a.start, a.end, a.new_text) } :
                  ~r.buffer.panicked =>
                      (r.history.redo_stack = <<>> /\ ~can_redo(r))

\* C18 happens: a push has been made in a state where redo_stack held a
\* record
C18_Witness ==
    /\ ~panicked
    /\ last.op = "push over redo"
    /\ redo_stack = <<>>
    /\ Len(undo_stack) >= 1

\* C19: undo() with undo_stack empty and redo() with redo_stack empty
\* change nothing: store, cursor position, dirty flag and both stacks are
\* as before the call
C19_EmptyUndoRedoNoOp ==
    ~panicked =>
        /\ undo_stack = <<>> => undo(Ed) = Ed
        /\ redo_stack = <<>> => redo(Ed) = Ed

\* C19 happens: redo() has been called on an empty redo_stack in a session
\* that is dirty, has an edit to undo and has its cursor away from (0, 0)
C19_Witness ==
    /\ ~panicked
    /\ last.op = "redo on empty"
    /\ redo_stack = <<>>
    /\ undo_stack # <<>>
    /\ dirty
    /\ cursor_position # <<0, 0>>

\* C20: set_text(s), and open_file reading s, replace the session: the
\* text is s, can_undo() and can_redo() are false and is_dirty() is false,
\* whatever edits and history there were before
C20_SetTextReplacesSession ==
    ~panicked =>
        \A s \in InsTexts \cup RecordedTexts \cup Utf8Texts :
            \A r \in { set_text(Ed, s), open_file(Ed, s) } :
                /\ ~r.buffer.panicked
                /\ editor_text(r) = s
                /\ ~can_undo(r)
                /\ ~can_redo(r)
                /\ ~is_dirty(r)

\* C20 happens: set_text has replaced a dirty session that had records on
\* both stacks
C20_Witness ==
    /\ ~panicked
    /\ last.op = "set_text over history"
    /\ T = <<NL, NL, 97>>
    /\ undo_stack = <<>>
    /\ redo_stack = <<>>
    /\ ~dirty

---------------------------------------------------------------------------
(* Properties of the renderer.  A property of render is stated on the      *)
(* state in which a call has returned: markdown is the stream of the text  *)
(* it was called on, tree the elements it returned.                        *)

\* the text events of a run, joined
RECURSIVE JoinTexts(_)
JoinTexts(run) ==
    IF run = <<>> THEN <<>>
    ELSE (IF Head(run).kind = "Text" THEN Head(run).text ELSE <<>>)
             \o JoinTexts(Tail(run))

\* C21: a document that is one heading of level n in 1..6 with the text t
\* renders as exactly [Heading(n, t)], and the table of contents made of
\* the tree lists (n, t); render("# Title") is [Heading(1, "Title")]
C21_HeadingRenders ==
    \A level \in 1..6, t \in Texts \cup { Title } :
        (pc = "returned" /\ markdown = HeadingBlock(level, << TextEvent(t) >>))
            => /\ tree = << Heading(level, t) >>
               /\ generate_toc(tree) = << <<level, t>> >>

\* C22: a top-level paragraph renders as exactly one Paragraph whose text
\* is the concatenation of the text events between its start and its end,
\* also when there are several; render("plain text") is
\* [Paragraph("plain text")]
C22_ParagraphAccumulates ==
    \A run \in InlineRuns \cup { << TextEvent(PlainText) >> } :
        (pc = "returned" /\ markdown = ParagraphBlock(run))
            => \E p \in { Paragraph(JoinTexts(run)) } :
                  /\ Len(SelectSeq(tree, LAMBDA x : x.el = "Paragraph")) = 1
                  /\ p \in { tree[i] : i \in 1..Len(tree) }

\* the items of a list of plain texts, as the parser yields them
PlainItems(ts) == [i \in 1..Len(ts) |-> ItemBlock(<< TextEvent(ts[i]) >>)]

\* C23: a top-level list of k items holding one plain text each renders as
\* exactly one list element with k items in the order of the source, each
\* item [Paragraph(text)]; it is an OrderedList exactly when the list
\* start carries a start number; render("- a\n- b") is
\* [UnorderedList([[Paragraph("a")], [Paragraph("b")]])]
C23_ListCollection ==
    \A ordered \in BOOLEAN, ts \in SeqsOf(Texts, 1, MaxItems) :
        (pc = "returned" /\ markdown = ListBlock(ordered, PlainItems(ts)))
            => \E items \in { [i \in 1..Len(ts) |-> << Paragraph(ts[i]) >>] } :
                  tree = << IF ordered THEN OrderedList(items)
                                       ELSE UnorderedList(items) >>

\* render("1. a\n2. b") has returned its ordered list of two items
C23_Witness ==
    /\ pc = "returned"
    /\ markdown = ListBlock(TRUE, PlainItems(<< <<97>>, <<98>> >>))
    /\ tree = << OrderedList(<< << Paragraph(<<97>>) >>,
                                << Paragraph(<<98>>) >> >>) >>

\* the paragraphs of a quote, as the parser yields them
QuotedParagraphs(runs) ==
    Concat([i \in 1..Len(runs) |-> ParagraphBlock(runs[i])])

\* the runs of the paragraphs of QuoteDocs
QuoteRuns ==
    OneText \cup { << TextEvent(<<97>>), SoftBreak, TextEvent(<<98>>) >>,
                   << TextEvent(Quoted) >> }

\* C24: a top-level block quote that holds only paragraphs renders as
\* exactly one BlockQuote whose children are those paragraphs in the order
\* of the source, and none of the quoted text is at top level;
\* render("> quoted") is [BlockQuote([Paragraph("quoted")])]
C24_QuoteNesting ==
    \A runs \in SeqsOf(QuoteRuns, 1, 2) :
        (pc = "returned" /\ markdown = QuoteBlock(QuotedParagraphs(runs)))
            => tree = << BlockQuote([i \in 1..Len(runs) |->
                                        Paragraph(JoinTexts(runs[i]))]) >>

\* C25: a code block start with the fence language L, text events and the
\* code block end render as exactly one CodeBlock(L, body), body being the
\* concatenation of the texts; L is empty without a fenced-language tag;
\* render("```rust\ncode\n```") is [CodeBlock("rust", "code\n")]
C25_CodeBlockCapture ==
    \A fenced \in BOOLEAN, lang \in { <<>>, Rust },
       lines \in SeqsOf({ <<97, NL>>, <<98, NL>>, CodeLine }, 0, 2) :
        (pc = "returned" /\ markdown = CodeBlockBlock(fenced, lang, lines))
            => tree = << CodeBlock(IF fenced THEN lang ELSE <<>>,
                                   Concat(lines)) >>

\* a rust block of two lines has been rendered with both lines in its body
C25_Witness ==
    /\ pc = "returned"
    /\ markdown = CodeBlockBlock(TRUE, Rust, << <<97, NL>>, <<98, NL>> >>)
    /\ tree = << CodeBlock(Rust, <<97, NL, 98, NL>>) >>

\* one turn of the loop, or the return, of the running call
CallStep ==
    OnStart \/ OnEnd \/ OnText \/ OnCode \/ OnHtml \/ OnSoftBreak
        \/ OnHardBreak \/ OnRule \/ OnOther \/ Return

\* render runs its loop to the end without waiting for anything: a step of
\* the running call that can be taken is taken
SpecRenderFair == InitRender /\ [][NextRender]_vars /\ WF_vars(CallStep)

\* no call has failed, a call under way can always take its next step, and
\* a call that has returned has consumed every event of its stream
RenderNeverFails ==
    /\ ~panicked
    /\ pc = "loop" => ENABLED CallStep
    /\ pc = "returned" => events = <<>>

\* every step of a call consumes exactly one event and pops at most one
\* frame of each stack, or is the return at the end of the stream
RenderConsumes ==
    pc = "loop"
        => \/ /\ pc' = "loop"
              /\ events # <<>>
              /\ events' = Tail(events)
              /\ Len(list_stack') >= Len(list_stack) - 1
              /\ Len(blockquote_stack') >= Len(blockquote_stack) - 1
           \/ /\ pc' = "returned"
              /\ events = <<>>

\* C26: for every finite event stream, the malformed ones included (an end
\* with no start, an item outside a list, text with no block open, a start
\* never closed), render never fails, consumes one event per step down to
\* the end of the stream and returns a tree; no stack is popped when empty
C26_RenderTotal ==
    /\ []RenderNeverFails
    /\ [][RenderConsumes]_vars
    /\ (pc = "loop") ~> (pc = "returned")

\* the malformed stream End(List), Text("a") has been rendered to the end
C26_Witness ==
    /\ pc = "returned"
    /\ markdown = << EndTag("List"), TextEvent(<<97>>) >>
    /\ tree = << Paragraph(<<97>>) >>
    /\ ~panicked

\* C27: two calls of render on the same text return the same tree, whatever
\* was rendered in between and whatever the theme of either call; the tree
\* is the one render builds from fresh locals on the text alone
C27_RenderDeterministic ==
    pc = "returned"
        => /\ tree = render(markdown)
           /\ \A first \in { previous[i] : i \in 1..Len(previous) } :
                  first.markdown = markdown => tree = first.tree

\* a text has been rendered a second time, under another theme and after
\* another text
C27_Witness ==
    /\ pc = "returned"
    /\ previous # <<>>
    /\ previous[1].markdown = markdown
    /\ previous[1].between
    /\ previous[1].theme # theme
    /\ tree # <<>>

---------------------------------------------------------------------------
(* Growth of the gap under appends *)

\* n more calls of insert(len(), "a") on r.buf, stopping at a panic;
\* growths counts the calls among them that called grow_gap
RECURSIVE append_run(_, _)
append_run(r, n) ==
    IF n = 0 \/ r.buf.panicked THEN r
    ELSE LET b1 == move_gap(r.buf, len(r.buf))
             grows == 1 > b1.gap_end - b1.gap_start
         IN append_run([buf |-> insert(r.buf, len(r.buf), <<97>>),
                        growths |-> r.growths + (IF grows THEN 1 ELSE 0),
                        appended |-> r.appended
                                        + (IF insert(r.buf, len(r.buf), <<97>>).panicked
                                           THEN 0 ELSE 1)],
                       n - 1)

\* the whole part of the binary logarithm of n >= 1
RECURSIVE Log2(_)
Log2(n) == IF n <= 1 THEN 0 ELSE 1 + Log2(n \div 2)

\* C28: from an empty store, n characters appended one at a time, each by
\* insert(length(), c), are all appended, and the calls of grow_gap among
\* the n inserts number at most 2 * log2(n) + 2, a bound of O(log n)
C28_GapAmortization ==
    last.op = "new"
        => \A n \in 1..MaxLen :
              \A r \in { append_run([buf |-> Buf, growths |-> 0,
                                     appended |-> 0], n) } :
                  /\ ~r.buf.panicked
                  /\ r.appended = n
                  /\ r.growths <= 2 * Log2(n) + 2

---------------------------------------------------------------------------
(* Destinations of the renderer *)

\* the list element of a flag and its items
ListElement(ordered, items) ==
    IF ordered THEN OrderedList(items) ELSE UnorderedList(items)

\* C29: a list that ends is emitted into the innermost destination of that
\* moment: the current item of the enclosing list, else the enclosing
\* quote, else the top level; a list nested in an item of a list is in the
\* tree inside that item, a list in a quote inside the quote, and neither
\* at top level
C29_NestedListDestination ==
    /\ \A outer \in BOOLEAN, inner \in BOOLEAN :
          (/\ pc = "returned"
           /\ markdown =
                ListBlock(outer,
                    << ItemBlock(<< TextEvent(<<97>>) >>
                         \o ListBlock(inner, PlainItems(<< <<98>> >>))) >>))
             => tree = << ListElement(outer,
                            << << Paragraph(<<97>>),
                                  ListElement(inner,
                                      << << Paragraph(<<98>>) >> >>) >> >>) >>
    /\ (/\ pc = "returned"
        /\ markdown = QuoteBlock(ListBlock(FALSE, PlainItems(<< <<97>> >>))))
          => tree = << BlockQuote(<< UnorderedList(
                                        << << Paragraph(<<97>>) >> >>) >>) >>

\* where the text of a text event goes, by the order of the checks of the
\* loop: the open element, the last item of the innermost list, nowhere
\* when that list has no item yet, the innermost quote, the top level
Destination ==
    IF current_element # <<>> THEN "current_element"
    ELSE IF list_stack # <<>>
    THEN (IF Last(list_stack).items # <<>> THEN "item" ELSE "nowhere")
    ELSE IF blockquote_stack # <<>> THEN "quote"
    ELSE "top"

\* the first destination that exists, in the order open element, last item
\* of the innermost list, innermost quote, top level
FirstExisting ==
    IF current_element # <<>> THEN "current_element"
    ELSE IF list_stack # <<>> /\ Last(list_stack).items # <<>> THEN "item"
    ELSE IF blockquote_stack # <<>> THEN "quote"
    ELSE "top"

\* the step appends t to the open element or adds Paragraph(t) at the end
\* of the destination, and changes nothing else of the traversal
TextGoesTo(destination, t) ==
    /\ current_element' =
          IF destination = "current_element"
          THEN << [current_element[1] EXCEPT !.text = @ \o t] >>
          ELSE current_element
    /\ list_stack' =
          IF destination = "item"
          THEN [list_stack EXCEPT ![Len(list_stack)].items =
                   [@ EXCEPT ![Len(@)] = Append(@, Paragraph(t))]]
          ELSE list_stack
    /\ blockquote_stack' =
          IF destination = "quote"
          THEN [blockquote_stack EXCEPT ![Len(blockquote_stack)] =
                   Append(@, Paragraph(t))]
          ELSE blockquote_stack
    /\ elements' =
          IF destination = "top" THEN Append(elements, Paragraph(t))
          ELSE elements

\* the state is a call of render about to handle a text event
AtText == pc = "loop" /\ events # <<>> /\ Head(events).kind = "Text"

\* C30 as stated: each text event goes to exactly the first destination
\* that exists, in the order open current_element, last item of the
\* innermost list, innermost open quote, top level
C30_TextFirstExisting ==
    [][AtText => TextGoesTo(FirstExisting, Head(events).text)]_vars

\* C30, amended: the checks are open current_element, then any open list,
\* then the innermost open quote, then the top level; with a list open
\* the text is a new Paragraph in the last item of the innermost list, and
\* is dropped when that list has no item yet, whatever quote is open;
\* text in a quote inside a list item, and text in a list inside a quote,
\* go to the list item
C30_TextPrecedence ==
    [][AtText => TextGoesTo(Destination, Head(events).text)]_vars

\* the text of the item of a list inside a quote has just gone to the item
\* and not to the quote
C30_Witness ==
    /\ pc = "loop"
    /\ markdown = QuoteBlock(ListBlock(FALSE, PlainItems(<< <<97>> >>)))
    /\ Len(events) = 3
    /\ blockquote_stack = << <<>> >>
    /\ list_stack = << [ordered |-> FALSE,
                        items |-> << << Paragraph(<<97>>) >> >>] >>
    /\ elements = <<>>

---------------------------------------------------------------------------
(* Inline events of the renderer *)

\* the state is a call of render about to handle an event of the kind
AtEvent(kind) == pc = "loop" /\ events # <<>> /\ Head(events).kind = kind

\* the step adds the element x at the end of the last item of the
\* innermost list and changes nothing else of the traversal
GoesToItem(x) ==
    /\ list_stack' = [list_stack EXCEPT ![Len(list_stack)].items =
                         [@ EXCEPT ![Len(@)] = Append(@, x)]]
    /\ UNCHANGED <<elements, current_element, blockquote_stack>>

\* the step adds the element x at the end of the top-level output and
\* changes nothing else of the traversal
GoesToTop(x) ==
    /\ elements' = Append(elements, x)
    /\ UNCHANGED <<current_element, list_stack, blockquote_stack>>

\* the step changes nothing of the traversal
TraversalUnchanged ==
    UNCHANGED <<elements, current_element, list_stack, blockquote_stack>>

\* C31 as stated: every inline code event produces exactly one InlineCode
\* element, in the last item of the innermost open list if a list is open
\* and otherwise in the top-level output
C31_CodeOneElement ==
    [][AtEvent("Code") =>
          IF list_stack # <<>> /\ Last(list_stack).items # <<>>
          THEN GoesToItem(InlineCode(Head(events).text))
          ELSE GoesToTop(InlineCode(Head(events).text))]_vars

\* C31, amended: an inline code event produces one InlineCode element in
\* the last item of the innermost open list if a list is open, and none at
\* all if that list has no item yet; with no list open it produces one
\* InlineCode in the top-level output; it is never placed in an open quote
\* and never appended to current_element
C31_CodeRouting ==
    [][AtEvent("Code") =>
          IF list_stack = <<>>
          THEN GoesToTop(InlineCode(Head(events).text))
          ELSE IF Last(list_stack).items # <<>>
          THEN GoesToItem(InlineCode(Head(events).text))
          ELSE TraversalUnchanged]_vars

\* the code span of a paragraph in a quote has just gone to the top-level
\* output and not to the quote
C31_Witness ==
    /\ pc = "loop"
    /\ markdown = QuoteBlock(ParagraphBlock(<< TextEvent(<<97>>),
                                               CodeEvent(<<98>>) >>))
    /\ Len(events) = 2
    /\ blockquote_stack = << << Paragraph(<<97>>) >> >>
    /\ elements = << InlineCode(<<98>>) >>

\* C32: every raw HTML event appends one RawHtml and every rule event one
\* HorizontalRule to the top-level output, in the order received, whatever
\* list, quote or code block is open, and leaves current_element,
\* list_stack and blockquote_stack as they were
C32_HtmlAndRuleBypass ==
    [][/\ AtEvent("Html") => GoesToTop(RawHtml(Head(events).text))
       /\ AtEvent("Rule") => GoesToTop(HorizontalRule)]_vars

\* raw HTML and then a rule have gone to the top-level output while a code
\* block was open
C32_Witness ==
    /\ pc = "loop"
    /\ markdown = << StartCodeBlock(TRUE, Rust), HtmlEvent(<<97>>), Rule >>
    /\ events = <<>>
    /\ current_element = << CodeBlock(Rust, <<>>) >>
    /\ elements = << RawHtml(<<97>>), HorizontalRule >>

\* the events of the stream that the call has consumed
Consumed == SubSeq(markdown, 1, Len(markdown) - Len(events))

\* the number of events of the stream evs that are a start (an end) of tag
Starts(evs, tag) ==
    Len(SelectSeq(evs, LAMBDA e : e.kind = "Start" /\ e.tag = tag))
Ends(evs, tag) ==
    Len(SelectSeq(evs, LAMBDA e : e.kind = "End" /\ e.tag = tag))

\* the call is between the start of a paragraph and its end
InParagraph == Starts(Consumed, "Paragraph") > Ends(Consumed, "Paragraph")

\* C33: a hard break inside an open paragraph appends a newline to the
\* text of that paragraph and emits no element; in every other situation
\* it emits one LineBreak; a soft break changes neither the output nor
\* the traversal state
C33_LineBreaks ==
    [][/\ AtEvent("HardBreak") =>
             IF InParagraph
             THEN /\ elements' = elements
                  /\ current_element # <<>>
                  /\ current_element' =
                        << [current_element[1] EXCEPT !.text = Append(@, NL)] >>
             ELSE GoesToTop(LineBreak)
       /\ AtEvent("SoftBreak") => TraversalUnchanged]_vars

---------------------------------------------------------------------------
(* Single steps of the history *)

\* the top record of a stack
Top(stack) == stack[Len(stack)]

\* C34: for the recorded Edit on top of undo_stack, whose new_text occupies
\* the bytes [position, position + len(new_text)) of the text, undo()
\* replaces exactly that region by old_text, keeps every byte outside it
\* and sets the cursor to cursor_before; redo() then replaces
\* [position, position + len(old_text)) by new_text, which gives the text
\* back, and sets the cursor to cursor_after
C34_SingleUndoRedoStep ==
    (~panicked /\ undo_stack # <<>>) =>
        \A edit \in { Top(undo_stack) } :
            (/\ edit.position + Len(edit.new_text) <= Len(T)
             /\ Slice(T, edit.position, edit.position + Len(edit.new_text))
                    = edit.new_text)
              => \A u \in { undo(Ed) } :
                    /\ ~u.buffer.panicked
                    /\ editor_text(u) =
                          Slice(T, 0, edit.position) \o edit.old_text
                              \o Slice(T, edit.position + Len(edit.new_text),
                                       Len(T))
                    /\ u.cursor_position = edit.cursor_before
                    /\ \A r \in { redo(u) } :
                          /\ ~r.buffer.panicked
                          /\ editor_text(r) = T
                          /\ r.cursor_position = edit.cursor_after

\* C35: undo() takes the top record off undo_stack, puts the same record
\* on top of redo_stack and returns it; redo() does the reverse; undo()
\* then redo(), and redo() then undo(), leave both stacks as they were,
\* and neither changes len(undo_stack) + len(redo_stack)
C35_StackTransfer ==
    \A h \in { Ed.history } :
        /\ h.undo_stack # <<>> =>
              \A r \in { history_undo(h) } :
                  /\ r.edit = << Top(h.undo_stack) >>
                  /\ r.history.undo_stack
                        = SubSeq(h.undo_stack, 1, Len(h.undo_stack) - 1)
                  /\ r.history.redo_stack
                        = Append(h.redo_stack, Top(h.undo_stack))
                  /\ history_redo(r.history).history = h
                  /\ Len(r.history.undo_stack) + Len(r.history.redo_stack)
                        = Len(h.undo_stack) + Len(h.redo_stack)
        /\ h.redo_stack # <<>> =>
              \A r \in { history_redo(h) } :
                  /\ r.edit = << Top(h.redo_stack) >>
                  /\ r.history.redo_stack
                        = SubSeq(h.redo_stack, 1, Len(h.redo_stack) - 1)
                  /\ r.history.undo_stack
                        = Append(h.undo_stack, Top(h.redo_stack))
                  /\ history_undo(r.history).history = h
                  /\ Len(r.history.undo_stack) + Len(r.history.redo_stack)
                        = Len(h.undo_stack) + Len(h.redo_stack)

\* an undo has moved a record while a record stays on undo_stack: both
\* stacks hold a record, and the two records differ
C35_Witness ==
    /\ ~panicked
    /\ last.op = "undo"
    /\ undo_stack # <<>>
    /\ redo_stack # <<>>
    /\ Top(undo_stack) # Top(redo_stack)

---------------------------------------------------------------------------
(* Laziness of the line index, length of the text, coordinates *)

\* the line queries, as `last` names them
LineQueries ==
    { "line_count", "line_text", "line_col_from_byte_index",
      "byte_index_from_line_col" }

\* C36: insert, delete_range and replace_range never rebuild the line
\* index: they leave line_starts as it was.  A rebuild happens only in a
\* line query that finds line_cache_dirty set: the query leaves the flag
\* clear, and a query that finds it clear changes nothing, so that any
\* number of queries between two mutations rebuild at most once
C36_LazyRebuild ==
    [][~panicked' =>
          /\ last'.op \in { "insert", "delete_range", "replace_range" } =>
                 line_starts' = line_starts
          /\ last'.op \in LineQueries =>
                 /\ ~line_cache_dirty'
                 /\ line_cache_dirty => Buf' = rebuild_line_cache(Buf)
                 /\ ~line_cache_dirty => Buf' = Buf]_vars

\* a line query has rebuilt the index that a deletion had left stale: the
\* gap is open, the flag clear and the index that of the two lines left
C36_Witness ==
    /\ ~panicked
    /\ last.op = "line_text"
    /\ ~line_cache_dirty
    /\ gap_start < gap_end
    /\ T = <<97, NL>>
    /\ line_starts = <<0, 2>>

\* C37: as_str() returns exactly len() bytes, the two zones in full, after
\* any sequence of inserts and deletions, also when the gap stands inside
\* a multi-byte UTF-8 character
C37_AsStrHasLenBytes ==
    ~panicked =>
        /\ Len(as_str(Buf)) = len(Buf)
        /\ as_str(Buf) = raw_text(Buf)

\* the number of bytes of line l before its newline, by the line index of
\* the store b, whose line count is count
ContentLen(b, l, count) ==
    IF l + 1 < count
    THEN At(b.line_starts, l + 1) - At(b.line_starts, l) - 1
    ELSE len(b) - At(b.line_starts, l)

\* C38: for every byte offset x <= len(), byte_index_from_line_col of
\* line_col_from_byte_index(x) is x; for every line l < line_count() and
\* every column c up to the end of the content of the line,
\* line_col_from_byte_index of byte_index_from_line_col(l, c) is (l, c)
C38_CoordinateRoundTrip ==
    (~panicked /\ last.op = "line_col_from_byte_index") =>
        /\ \A x \in 0..len(Buf) :
              \A lc \in { line_col_from_byte_index(Buf, x).result } :
                  byte_index_from_line_col(Buf, lc[1], lc[2]).result = x
        /\ \A q \in { line_count(Buf) } :
              \A l \in 0..(q.result - 1) :
                  \A c \in 0..ContentLen(q.buf, l, q.result) :
                      line_col_from_byte_index(
                          Buf, byte_index_from_line_col(Buf, l, c).result).result
                        = <<l, c>>

\* the round trip has been made on a text of two lines with the gap open
C38_Witness ==
    /\ ~panicked
    /\ last.op = "line_col_from_byte_index"
    /\ T = <<NL, 97>>
    /\ gap_start < gap_end
    /\ line_col_from_byte_index(Buf, 2).result = <<1, 1>>
    /\ byte_index_from_line_col(Buf, 1, 1).result = 2

---------------------------------------------------------------------------
(* Lines of the text *)

\* the pieces of a text split on '\n', in order
RECURSIVE SplitLines(_, _)
SplitLines(text, piece) ==
    IF text = <<>> THEN << piece >>
    ELSE IF Head(text) = NL THEN << piece >> \o SplitLines(Tail(text), <<>>)
    ELSE SplitLines(Tail(text), Append(piece, Head(text)))

\* a piece without one '\r' at its end
WithoutOneCR(piece) ==
    IF piece # <<>> /\ piece[Len(piece)] = CR
    THEN SubSeq(piece, 1, Len(piece) - 1) ELSE piece

---------------------------------------------------------------------------
(* Conservation of text by the renderer.                                   *)

\* the tags render keeps a stack or an open element for, and the item
Nesting == { "List", "Item", "BlockQuote", "CodeBlock" }

\* the tags of Nesting left open by evs, innermost last, when read after the
\* open tags `open`; << "!" >> when an end does not match the innermost open
\* tag, or a text stands inside a list and outside its items
RECURSIVE OpenTags(_, _)
OpenTags(open, evs) ==
    IF evs = <<>> \/ open = << "!" >> THEN open
    ELSE LET e == Head(evs) IN
         CASE e.kind = "Start" /\ e.tag \in Nesting ->
                  OpenTags(Append(open, e.tag), Tail(evs))
           [] e.kind = "End" /\ e.tag \in Nesting ->
                  IF open # <<>> /\ Last(open) = e.tag
                  THEN OpenTags(Front(open), Tail(evs))
                  ELSE << "!" >>
           [] e.kind = "Text" ->
                  IF \E i \in DOMAIN open :
                         /\ open[i] = "List"
                         /\ \A j \in (i + 1)..Len(open) : open[j] # "Item"
                  THEN << "!" >>
                  ELSE OpenTags(open, Tail(evs))
           [] OTHER -> OpenTags(open, Tail(evs))

\* every list, item, quote and code block of evs is closed in its turn, and
\* every text inside a list stands inside an item of the innermost list
WellNested(evs) == OpenTags(<<>>, evs) = <<>>

\* the contents of the text events of evs, one after the other
RECURSIVE EventText(_)
EventText(evs) ==
    IF evs = <<>> THEN <<>>
    ELSE (IF Head(evs).kind = "Text" THEN Head(evs).text ELSE <<>>)
             \o EventText(Tail(evs))

\* the texts of the headings, paragraphs and code blocks of els, of the
\* quotes of els and of the items of the lists of els, one after the other
RECURSIVE TreeText(_)
TreeText(els) ==
    IF els = <<>> THEN <<>>
    ELSE LET e == Head(els) IN
         (CASE e.el \in { "Heading", "Paragraph", "CodeBlock" } -> e.text
            [] e.el = "BlockQuote" -> TreeText(e.children)
            [] e.el \in { "UnorderedList", "OrderedList" } ->
                   TreeText(Concat(e.children))
            [] OTHER -> <<>>)
             \o TreeText(Tail(els))

\* the number of times c stands in s
Count(s, c) == Cardinality({ i \in DOMAIN s : s[i] = c })

\* s and t hold the same bytes the same number of times
SameBytes(s, t) ==
    /\ Len(s) = Len(t)
    /\ \A i \in DOMAIN s : Count(s, s[i]) = Count(t, s[i])

\* C40: when render returns from a well-nested stream, the tree holds the
\* bytes of the text events, each as many times as the events do, so that
\* no text is lost and none stands twice, and list_stack and
\* blockquote_stack are both empty
C40_TextConserved ==
    (pc = "returned" /\ WellNested(markdown)) =>
        /\ SameBytes(TreeText(tree), EventText(markdown))
        /\ list_stack = <<>>
        /\ blockquote_stack = <<>>

\* render has returned from a list whose item holds a paragraph, a list
\* and a second paragraph, and the tree holds the three texts
C40_Witness ==
    /\ pc = "returned"
    /\ WellNested(markdown)
    /\ Starts(markdown, "List") = 2
    /\ Len(EventText(markdown)) = 3
    /\ Last(markdown) = EndTag("List")
    /\ markdown[Len(markdown) - 2] = EndTag("Paragraph")
    /\ Len(TreeText(tree)) = 3
    /\ list_stack = <<>>

====
